---- MODULE Spec2Model ----
(***************************************************************************)
(* Model of the deterministic evidence-and-edit engine of the resume       *)
(* tailoring repository:                                                   *)
(*   - tools/docx_tagger.py        tag_docx_bullets (bookmarks, reserves)  *)
(*   - tools/document_writer.py    _tailor_docx_in_place                   *)
(*   - tools/plan_linter.py        lint_bullet_pair, lint_and_gate_plan    *)
(*   - tools/plan_validator_tool.py  the session-state wrapper             *)
(*   - src/tools/dry_run_stub.py   build_artifacts and its helpers         *)
(* Texts are sequences of one-character strings, so that whitespace        *)
(* normalisation, tokenisation and name formatting are computed.           *)
(* A missing (None) text field is the empty sequence: every reader in the  *)
(* code coerces None with `or ""` before use.                              *)
(***************************************************************************)
EXTENDS Integers, Sequences, FiniteSets, TLC

VARIABLES
    pc,          \* which operation the run is at
    doc,         \* the in-memory document: a sequence of paragraphs
    base,        \* the document as it was loaded by the current operation
    edits,       \* the edit list handed to _tailor_docx_in_place
    result,      \* the value the last operation returned
    state,       \* ADK session state: resume_edit_plan, plan_lint_report
    prev_plan,   \* the plan object the last lint pass was given, after the call
    passes,      \* number of passes run so far (tagging or linting)
    inputs,      \* the arguments the run's operations are called with
    artifacts,   \* build_artifacts' return value
    memo         \* the values of the pure text functions on the texts of the
                 \* run, computed once at its start

vars == <<pc, doc, base, edits, result, state, prev_plan, passes, inputs, artifacts, memo>>

----------------------------------------------------------------------------
(* Bounds of the model *)

MaxParas == 3
MaxEdits == 2
MaxPasses == 2
MaxReserve == 2
MaxExps == 3
MaxTake == 2

----------------------------------------------------------------------------
(* Characters and text helpers *)

Whitespace == {" ", "\t", "\n"}

UpperSeq == <<"A","B","C","D","E","F","G","H","I","J","K","L","M",
              "N","O","P","Q","R","S","T","U","V","W","X","Y","Z">>
LowerSeq == <<"a","b","c","d","e","f","g","h","i","j","k","l","m",
              "n","o","p","q","r","s","t","u","v","w","x","y","z">>
DigitSeq == <<"0","1","2","3","4","5","6","7","8","9">>

UpperChars == {UpperSeq[i] : i \in 1..26}
LowerChars == {LowerSeq[i] : i \in 1..26}
DigitChars == {DigitSeq[i] : i \in 1..10}
Letters == UpperChars \cup LowerChars

\* str.lower() on one character
ToLower(c) ==
    IF c \in UpperChars THEN LowerSeq[CHOOSE i \in 1..26 : UpperSeq[i] = c] ELSE c

Lower(s) == [i \in 1..Len(s) |-> ToLower(s[i])]

RECURSIVE Join(_, _)
\* sep.join(parts)
Join(parts, sep) ==
    IF parts = <<>> THEN <<>>
    ELSE IF Len(parts) = 1 THEN parts[1]
    ELSE parts[1] \o sep \o Join(Tail(parts), sep)

RECURSIVE SplitWsFrom(_, _, _, _)
SplitWsFrom(s, i, cur, acc) ==
    IF i > Len(s) THEN (IF cur = <<>> THEN acc ELSE Append(acc, cur))
    ELSE IF s[i] \in Whitespace
         THEN SplitWsFrom(s, i + 1, <<>>, IF cur = <<>> THEN acc ELSE Append(acc, cur))
         ELSE SplitWsFrom(s, i + 1, Append(cur, s[i]), acc)

\* str.split() with no argument: the maximal runs of non-whitespace
SplitWs(s) == SplitWsFrom(s, 1, <<>>, <<>>)

\* str.strip(): drop leading and trailing whitespace
Strip(s) ==
    LET keep == {i \in 1..Len(s) : s[i] \notin Whitespace} IN
    IF keep = {} THEN <<>>
    ELSE LET lo == CHOOSE i \in keep : \A j \in keep : i <= j
             hi == CHOOSE i \in keep : \A j \in keep : j <= i
         IN SubSeq(s, lo, hi)

\* the zero-width space the tagger writes into a reserve paragraph; Python's
\* str.strip()/split() do not treat it as whitespace
ZWSP == <<"\\u200b">>

----------------------------------------------------------------------------
(* Documents: a sequence of paragraphs, each with its text, its style name *)
(* and the bookmarks (bookmarkStart children) it carries.                  *)

NoResult == [status |-> "none"]

Para(text, style, bms) == [text |-> text, style |-> style, bms |-> bms]

\* all bookmarks of a document, in document order
RECURSIVE Bookmarks(_)
Bookmarks(d) ==
    IF d = <<>> THEN <<>> ELSE d[1].bms \o Bookmarks(Tail(d))

----------------------------------------------------------------------------
(* tools/docx_tagger.py *)

\* `sub in s`
Contains(s, sub) ==
    \E i \in 0..(Len(s) - Len(sub)) : SubSeq(s, i + 1, i + Len(sub)) = sub

\* s.startswith(pre)
StartsWith(s, pre) ==
    Len(s) >= Len(pre) /\ SubSeq(s, 1, Len(pre)) = pre

StyleListBullet == <<"L","i","s","t"," ","B","u","l","l","e","t">>
StyleNormal == <<"N","o","r","m","a","l">>

\* "Bullet" in name or name.startswith("List")
_is_bullet_paragraph(p) ==
    \/ Contains(p.style, <<"B","u","l","l","e","t">>)
    \/ StartsWith(p.style, <<"L","i","s","t">>)

\* any bookmarkStart child
_paragraph_has_bookmark(p) == p.bms # <<>>

RECURSIVE IterGroupsFrom(_, _, _, _)
IterGroupsFrom(d, i, group, acc) ==
    IF i > Len(d) THEN (IF group = <<>> THEN acc ELSE Append(acc, group))
    ELSE IF _is_bullet_paragraph(d[i]) /\ Strip(d[i].text) # <<>>
         THEN IterGroupsFrom(d, i + 1, Append(group, i), acc)
         ELSE IterGroupsFrom(d, i + 1, <<>>,
                             IF group = <<>> THEN acc ELSE Append(acc, group))

\* the contiguous groups of non-empty bullet paragraphs, as paragraph indices
_iter_bullet_groups(d) == IterGroupsFrom(d, 1, <<>>, <<>>)

RECURSIVE Digits(_)
\* decimal digits of n, most significant first
Digits(n) ==
    IF n < 10 THEN <<DigitSeq[n + 1]>>
    ELSE Append(Digits(n \div 10), DigitSeq[(n % 10) + 1])

\* f"{n:04d}": zero-padded to at least four digits
Fmt04(n) ==
    LET ds == Digits(n) IN
    IF Len(ds) >= 4 THEN ds ELSE [i \in 1..(4 - Len(ds)) |-> "0"] \o ds

\* f"{prefix}{bullet_idx:04d}"
BulletName(prefix, bullet_idx) == prefix \o Fmt04(bullet_idx)

\* a reserve name that leaves the sequence number out
ReserveName_NoSeq(prefix, bullet_idx, r) ==
    prefix \o <<"_", "R">> \o Digits(r)

\* f"{prefix}{bullet_idx:04d}_R{r}"
ReserveName(prefix, bullet_idx, r) ==
    prefix \o Fmt04(bullet_idx) \o <<"_", "R">> \o Digits(r)

\* the first bookmark id of every pass
BM_ID_BASE == 1000

\* bookmarkStart/bookmarkEnd pair with this name and id added to the paragraph
_add_bookmark_to_paragraph(p, name, bm_id) ==
    [p EXCEPT !.bms = <<[name |-> name, id |-> bm_id]>> \o @]

\* last.insert_paragraph_after(text): a new paragraph right after index i
InsertAfter(d, i, p) == SubSeq(d, 1, i) \o <<p>> \o SubSeq(d, i + 1, Len(d))

RECURSIVE TagMembers_NoSkip(_, _, _, _)
\* a member loop without the `if _paragraph_has_bookmark(p): continue` test
TagMembers_NoSkip(group, k, acc, prefix) ==
    IF k > Len(group) THEN acc
    ELSE LET i == group[k] + acc.off IN
         TagMembers_NoSkip(group, k + 1,
                [acc EXCEPT
                   !.doc[i] = _add_bookmark_to_paragraph(
                                  @, BulletName(prefix, acc.bullet_idx), acc.bm_id),
                   !.tagged = @ + 1,
                   !.bullet_idx = @ + 1,
                   !.bm_id = @ + 1],
                prefix)

RECURSIVE TagMembers(_, _, _, _)
\* the loop `for p in group` (tag the untagged bullets of one group)
TagMembers(group, k, acc, prefix) ==
    IF k > Len(group) THEN acc
    ELSE LET i == group[k] + acc.off IN
         IF _paragraph_has_bookmark(acc.doc[i])
         THEN TagMembers(group, k + 1, acc, prefix)
         ELSE TagMembers(group, k + 1,
                [acc EXCEPT
                   !.doc[i] = _add_bookmark_to_paragraph(
                                  @, BulletName(prefix, acc.bullet_idx), acc.bm_id),
                   !.tagged = @ + 1,
                   !.bullet_idx = @ + 1,
                   !.bm_id = @ + 1],
                prefix)

RECURSIVE AddReserves(_, _, _, _, _)
\* the loop `for r in range(1, reserve_per_group + 1)`: every reserve is
\* inserted directly after `last`, the last paragraph of the group
AddReserves(last, r, reserve_per_group, acc, prefix) ==
    IF r > reserve_per_group THEN acc
    ELSE LET new_p == _add_bookmark_to_paragraph(
                          Para(ZWSP, acc.doc[last].style, <<>>),
                          ReserveName(prefix, acc.bullet_idx, r), acc.bm_id)
         IN AddReserves(last, r + 1, reserve_per_group,
                [acc EXCEPT
                   !.doc = InsertAfter(@, last, new_p),
                   !.reserves = @ + 1,
                   !.bullet_idx = @ + 1,
                   !.bm_id = @ + 1],
                prefix)

RECURSIVE TagGroups(_, _, _, _, _)
\* the loop `for g_i, group in enumerate(groups, start=1)`; acc.off is the
\* number of paragraphs inserted before the group being processed
TagGroups(groups, g, acc, prefix, reserve_per_group) ==
    IF g > Len(groups) THEN acc
    ELSE LET group == groups[g]
             a1 == TagMembers(group, 1, acc, prefix)
             last == group[Len(group)] + a1.off
             a2 == AddReserves(last, 1, reserve_per_group, a1, prefix)
         IN TagGroups(groups, g + 1,
                      [a2 EXCEPT !.off = @ + reserve_per_group],
                      prefix, reserve_per_group)

\* TagResult plus the saved document
tag_docx_bullets(d, prefix, reserve_per_group) ==
    LET acc == TagGroups(_iter_bullet_groups(d), 1,
                         [doc |-> d, tagged |-> 0, reserves |-> 0,
                          bm_id |-> BM_ID_BASE, bullet_idx |-> 1, off |-> 0],
                         prefix, reserve_per_group)
    IN [doc |-> acc.doc,
        tagged_bullets |-> acc.tagged,
        reserve_bullets_added |-> acc.reserves]

\* _tag_resume_template always passes prefix="B"
PrefixB == <<"B">>

----------------------------------------------------------------------------
(* Values of the variables an operation does not use *)

NoPlan == [edits |-> <<>>, present |-> FALSE]
NoReport == [summary |-> [total_edits |-> 0, flagged_edits |-> 0], edits |-> <<>>]
IdleState == [resume_edit_plan |-> NoPlan, plan_lint_report |-> NoReport]
IdleInputs == [jd |-> 0]
IdleArtifacts == [selected |-> <<>>]
IdleMemo == <<>>

\* sequences over S of length 0..n
SeqsUpTo(S, n) == UNION {[1..k -> S] : k \in 0..n}

----------------------------------------------------------------------------
(* Specification SpecTag: tagging passes over one resume template, each    *)
(* pass reading the document the previous pass saved (_tag_resume_template *)
(* points current_resume_path at its output), with the user free to add a  *)
(* bullet to the document between two passes.  reserve_per_group is the    *)
(* run's setting: every pass of a run is called with the same value.       *)

TagParas ==
    { Para(<<"a">>, StyleListBullet, <<>>),
      Para(<<"h">>, StyleNormal, <<>>),
      Para(<<" ">>, StyleListBullet, <<>>) }

\* the template of the documented example: bullet groups of sizes 3 and 2
ExampleDoc ==
    LET b == Para(<<"a">>, StyleListBullet, <<>>)
        h == Para(<<"h">>, StyleNormal, <<>>)
    IN <<b, b, b, h, b, b>>

UntaggedDocs == SeqsUpTo(TagParas, MaxParas) \cup {ExampleDoc}

InitTag ==
    /\ pc = "tag"
    /\ doc \in UntaggedDocs
    /\ base = <<>>
    /\ edits = <<>>
    /\ result = NoResult
    /\ state = IdleState
    /\ prev_plan = NoPlan
    /\ passes = 0
    /\ inputs \in [reserve_per_group : 0..MaxReserve]
    /\ artifacts = IdleArtifacts
    /\ memo = IdleMemo

\* _tag_resume_template: one whole tagging pass, load to save
TagResumeTemplate ==
    /\ pc = "tag"
    /\ passes < MaxPasses
    /\ LET res == tag_docx_bullets(doc, PrefixB, inputs.reserve_per_group) IN
         /\ doc' = res.doc
         /\ base' = doc
         /\ result' = [status |-> "success",
                       tagged_bullets |-> res.tagged_bullets,
                       reserve_bullets_added |-> res.reserve_bullets_added]
    /\ passes' = passes + 1
    /\ UNCHANGED <<pc, edits, state, prev_plan, inputs, artifacts, memo>>

\* the user adds one bullet paragraph to the tagged resume before re-tagging
AddBullet ==
    /\ pc = "tag"
    /\ result.status = "success"
    /\ passes < MaxPasses
    /\ \E i \in 0..Len(doc) :
         doc' = InsertAfter(doc, i, Para(<<"a">>, StyleListBullet, <<>>))
    /\ result' = NoResult
    /\ UNCHANGED <<pc, base, edits, state, prev_plan, passes, inputs, artifacts, memo>>

NextTag == TagResumeTemplate \/ AddBullet

SpecTag == InitTag /\ [][NextTag]_vars

(* Properties of SpecTag *)

\* a paragraph the tagger is meant to address: bullet-styled, text not blank
IsBulletPara(p) ==
    p.style = StyleListBullet /\ \E i \in 1..Len(p.text) : p.text[i] \notin Whitespace

BulletCount(d) == Cardinality({i \in 1..Len(d) : IsBulletPara(d[i])})

\* number of maximal runs of bullet paragraphs
RunCount(d) ==
    Cardinality({i \in 1..Len(d) :
        IsBulletPara(d[i]) /\ (i = 1 \/ ~IsBulletPara(d[i - 1]))})

NamesDistinct(d) ==
    LET bs == Bookmarks(d) IN
    \A i, j \in 1..Len(bs) : i # j => bs[i].name # bs[j].name

FirstPassDone ==
    pc = "tag" /\ result.status = "success" /\ Bookmarks(base) = <<>>

\* C9: a tagging pass over a document without bookmarks, with g runs of
\* non-empty bullet paragraphs and reserve_per_group = r, returns
\* tagged_bullets = number of bullet paragraphs and reserve_bullets_added =
\* r*g; the output holds exactly that many bookmarks, one on each bullet or
\* reserve paragraph and none elsewhere, with pairwise distinct names.
C9_FirstPassCounts ==
    FirstPassDone =>
        LET n == BulletCount(base)
            g == RunCount(base)
            r == inputs.reserve_per_group
        IN /\ result.tagged_bullets = n
           /\ result.reserve_bullets_added = r * g
           /\ Len(doc) = Len(base) + r * g
           /\ Len(Bookmarks(doc)) = n + r * g
           /\ \A i \in 1..Len(doc) :
                Len(doc[i].bms) = (IF IsBulletPara(doc[i]) THEN 1 ELSE 0)
           /\ BulletCount(doc) = n + r * g
           /\ NamesDistinct(doc)

\* C9 witness: the documented example (groups of 3 and 2, one reserve each)
\* has been tagged: 5 bullets tagged, 2 reserves, 7 bookmarks
C9_Witness ==
    /\ FirstPassDone
    /\ base = ExampleDoc
    /\ inputs.reserve_per_group = 1
    /\ result.tagged_bullets = 5
    /\ result.reserve_bullets_added = 2
    /\ Len(Bookmarks(doc)) = 7

\* C10: after any sequence of tagging passes, each over the output of the
\* previous one and possibly with bullets added in between, no two bookmarks
\* of the document have the same name.
C10_NamesUnique == NamesDistinct(doc)

RECURSIVE IsSubseq(_, _)
\* a is b with some elements left out
IsSubseq(a, b) ==
    IF a = <<>> THEN TRUE
    ELSE IF b = <<>> THEN FALSE
    ELSE IF a[1] = b[1] THEN IsSubseq(Tail(a), Tail(b))
    ELSE IsSubseq(a, Tail(b))

\* the paragraphs that carry a bookmark, in document order
Bookmarked(d) == SelectSeq(d, _paragraph_has_bookmark)

\* a tagging pass that reads the document the previous pass saved, with no
\* bullet added in between (AddBullet clears result)
RetagStep == passes' = passes + 1 /\ result.status = "success"

C11_Step ==
    RetagStep =>
        /\ result'.tagged_bullets = 0
        /\ IsSubseq(Bookmarked(doc), doc')
        /\ \A i \in 1..Len(doc') : Len(doc'[i].bms) <= 1

\* C11: re-tagging the output of a tagging pass, with no bullets added in
\* between, returns tagged_bullets = 0 and leaves every paragraph that already
\* carries a bookmark with exactly the bookmark (name and id) it had: the
\* bookmarked paragraphs of the input are paragraphs of the output, unchanged
\* and in the same order, and no paragraph gets a second bookmark.
C11_RetagKeepsBookmarks == [][C11_Step]_vars

\* C11 witness: a second pass over a first pass's output that held bookmarked
\* bullets; it tagged nothing, still wrote to the document, and the bookmarked
\* paragraphs of its input are all in its output
C11_Witness ==
    /\ passes = 2
    /\ result.status = "success"
    /\ result.tagged_bullets = 0
    /\ Len(Bookmarked(base)) >= 2
    /\ Bookmarked(base) = base
    /\ Len(doc) > Len(base)
    /\ IsSubseq(base, doc)

C12_Step ==
    RetagStep =>
        /\ result'.reserve_bullets_added = 0
        /\ Len(doc') = Len(doc)

\* C12: a second tag_docx_bullets pass over an already-tagged document adds no
\* reserve paragraphs: it returns reserve_bullets_added = 0 and the document
\* has as many paragraphs as after the first pass.
C12_NoReservesOnRetag == [][C12_Step]_vars

\* how many bookmarks of the document d carry the numeric id `id`
IdCount(d, id) ==
    LET bs == Bookmarks(d) IN Cardinality({k \in 1..Len(bs) : bs[k].id = id})

\* the numeric ids a step from document d to document e gave to new bookmarks
AssignedIds(d, e) ==
    LET bs == Bookmarks(e)
    IN {bs[k].id : k \in {j \in 1..Len(bs) : IdCount(e, bs[j].id) > IdCount(d, bs[j].id)}}

C24_Step ==
    passes' = passes + 1 =>
        LET assigned == AssignedIds(doc, doc')
        IN /\ \A id \in assigned : IdCount(doc, id) = 0 /\ IdCount(doc', id) = 1
           /\ assigned = BM_ID_BASE..(BM_ID_BASE + Cardinality(assigned) - 1)

\* C24: every bookmark id a tagging pass assigns differs from the id of every
\* bookmark already in its input document, bookmarks of an earlier pass
\* included, and the ids of one pass are assigned once each, in increasing
\* order from the base 1000.
C24_FreshIds == [][C24_Step]_vars

----------------------------------------------------------------------------
(* tools/document_writer.py: _tailor_docx_in_place *)

\* " ".join((s or "").split()).strip()
norm(s) == Strip(Join(SplitWs(s), <<" ">>))

\* the paragraph texts and the edits of the model's tailoring runs
TextAB == <<"a", " ", " ", "b">>
TextC == <<"c">>
TextBlank == <<" ">>

TailorParas ==
    { Para(TextAB, StyleListBullet, <<>>),
      Para(TextC, StyleListBullet, <<>>),
      Para(TextBlank, StyleListBullet, <<>>) }

Edit(old, new, id, ok) ==
    [old_bullet |-> old, new_bullet |-> new, bullet_id |-> id, needs_user_ok |-> ok]

\* the BulletEdit objects a plan may hand to the writer
TailorEdits ==
    { Edit(<<" ", "a", " ", "b">>, <<"x">>, <<>>, FALSE),
      Edit(<<"c">>, <<"y">>, <<>>, TRUE),
      Edit(<<"z">>, <<"x">>, <<>>, FALSE),
      Edit(<<>>, <<"y">>, BulletName(PrefixB, 1), FALSE),
      Edit(<<"c">>, <<"x">>, BulletName(PrefixB, 1), FALSE),
      Edit(<<"a", " ", "b">>, <<"c">>, <<>>, FALSE) }

\* every text norm is applied to in the model
TailorTexts ==
    {p.text : p \in TailorParas} \cup {e.old_bullet : e \in TailorEdits} \cup {ZWSP}

\* norm on the texts of the model, evaluated once
NormTable == {<<t, norm(t)>> : t \in TailorTexts}

NormOf(t) == (CHOOSE r \in NormTable : r[1] = t)[2]

\* idx_map.get(key, []): the indices, ascending, of the paragraphs of the
\* loaded document whose normalised text is key; blank paragraphs have no entry
idx_map(d, key) ==
    {i \in 1..Len(d) : NormOf(d[i].text) # <<>> /\ NormOf(d[i].text) = key}

\* hits[0]
FirstHit(hits) == CHOOSE i \in hits : \A j \in hits : i <= j

\* p.text = new: python-docx clears the paragraph's content (everything but
\* its properties, so its bookmark markers too) and adds one run with the text
SetText(p, new) == [p EXCEPT !.text = new, !.bms = <<>>]

\* a loop body that rewrites every hit instead of the first
TailorEdit_AllHits(d, idx_of, run, e) ==
    LET old == NormOf(e.old_bullet)
        hits == idx_map(idx_of, old)
    IN IF old = <<>> THEN [doc |-> d, run |-> run]
       ELSE IF hits = {} THEN [doc |-> d, run |-> [run EXCEPT !.missing = @ + 1]]
       ELSE [doc |-> [i \in 1..Len(d) |->
                        IF i \in hits THEN SetText(d[i], e.new_bullet) ELSE d[i]],
             run |-> [run EXCEPT !.replaced = @ + 1]]

\* a loop body that writes the new bullet as a new paragraph after the hit
TailorEdit_Insert(d, idx_of, run, e) ==
    LET old == NormOf(e.old_bullet)
        hits == idx_map(idx_of, old)
    IN IF old = <<>> THEN [doc |-> d, run |-> run]
       ELSE IF hits = {} THEN [doc |-> d, run |-> [run EXCEPT !.missing = @ + 1]]
       ELSE [doc |-> InsertAfter(d, FirstHit(hits),
                                 Para(e.new_bullet, d[FirstHit(hits)].style, <<>>)),
             run |-> [run EXCEPT !.replaced = @ + 1]]

\* one iteration of `for e in edits`: d is the document being edited, idx_of
\* the document the index was built from (the base, never refreshed)
TailorEdit(d, idx_of, run, e) ==
    LET old == NormOf(e.old_bullet)
        hits == idx_map(idx_of, old)
    IN IF old = <<>> THEN [doc |-> d, run |-> run]
       ELSE IF hits = {} THEN [doc |-> d, run |-> [run EXCEPT !.missing = @ + 1]]
       ELSE [doc |-> [d EXCEPT ![FirstHit(hits)] = SetText(@, e.new_bullet)],
             run |-> [run EXCEPT !.replaced = @ + 1]]

----------------------------------------------------------------------------
(* Specification SpecTailor: one call of _tailor_docx_in_place.  Init is   *)
(* the state after json.loads, Document(base_resume_path) and the index    *)
(* build; TailorLoopStep is one iteration of the edit loop; TailorSave is  *)
(* doc.save and the return.                                                *)

\* base resumes: as the user supplied them, or as the tagging stage left them
TailorDocs ==
    LET plain == SeqsUpTo(TailorParas, MaxParas) IN
    plain \cup {tag_docx_bullets(d, PrefixB, 1).doc : d \in plain}

InitTailor ==
    /\ pc = "loop"
    /\ base \in TailorDocs
    /\ doc = base
    /\ edits \in SeqsUpTo(TailorEdits, MaxEdits)
    /\ result = [status |-> "running", replaced |-> 0, missing |-> 0, k |-> 0]
    /\ state = IdleState
    /\ prev_plan = NoPlan
    /\ passes = 0
    /\ inputs = IdleInputs
    /\ artifacts = IdleArtifacts
    /\ memo = IdleMemo

TailorLoopStep ==
    /\ pc = "loop"
    /\ result.k < Len(edits)
    /\ LET r == TailorEdit(doc, base, result, edits[result.k + 1]) IN
         /\ doc' = r.doc
         /\ result' = [r.run EXCEPT !.k = @ + 1]
    /\ UNCHANGED <<pc, base, edits, state, prev_plan, passes, inputs, artifacts, memo>>

TailorSave ==
    /\ pc = "loop"
    /\ result.k = Len(edits)
    /\ pc' = "done"
    /\ result' = [result EXCEPT !.status = "success"]
    /\ UNCHANGED <<doc, base, edits, state, prev_plan, passes, inputs, artifacts, memo>>

NextTailor == TailorLoopStep \/ TailorSave

SpecTailor == InitTailor /\ [][NextTailor]_vars

(* Properties of SpecTailor *)

\* the paragraphs of the base document whose whitespace-normalised text is
\* the whitespace-normalised old_bullet of the edit
Matches(e) ==
    {i \in 1..Len(base) : NormOf(base[i].text) = NormOf(e.old_bullet)}

Lowest(S) == CHOOSE i \in S : \A j \in S : i <= j

HasKey(e) == NormOf(e.old_bullet) # <<>>

\* C3: when the edit list contains an edit with needs_user_ok = true, the
\* operation returns a gated/blocked status and that edit's new_bullet is
\* written into no paragraph of the output document.  (Stated for the lists
\* whose gated edit addresses a paragraph of the document.)
C3_GatedEditsBlocked ==
    (pc = "done" /\ \E k \in 1..Len(edits) :
                       edits[k].needs_user_ok /\ Matches(edits[k]) # {}) =>
        /\ result.status \in {"gated", "blocked"}
        /\ \A k \in 1..Len(edits) :
             edits[k].needs_user_ok =>
                \A i \in 1..Len(doc) : doc[i].text # edits[k].new_bullet

\* C5 (loop step): for an edit with a non-empty old_bullet, when a paragraph
\* of the base document matches, only the lowest-index matching paragraph
\* receives new_bullet and replaced grows by 1; when none matches, missing
\* grows by 1 and no paragraph changes.
C5_Step ==
    (pc = "loop" /\ result.k < Len(edits) /\ HasKey(edits[result.k + 1])) =>
        LET e == edits[result.k + 1]
            m == Matches(e)
        IN IF m # {}
           THEN /\ Len(doc') = Len(doc)
                /\ doc'[Lowest(m)].text = e.new_bullet
                /\ \A i \in 1..Len(doc) : i # Lowest(m) => doc'[i] = doc[i]
                /\ result'.replaced = result.replaced + 1
                /\ result'.missing = result.missing
           ELSE /\ doc' = doc
                /\ result'.missing = result.missing + 1
                /\ result'.replaced = result.replaced

\* C5 (one-edit batch): replaced=1, missing=0 on a hit; replaced=0,
\* missing=1 on a miss.
C5_OneEdit ==
    (pc = "done" /\ Len(edits) = 1 /\ HasKey(edits[1])) =>
        IF Matches(edits[1]) # {}
        THEN result.replaced = 1 /\ result.missing = 0
        ELSE result.replaced = 0 /\ result.missing = 1

\* C5: both parts, of every step of the operation (C5_OneEdit holds
\* initially: nothing has been returned yet)
C5_FirstMatchOnly == [][C5_Step /\ C5_OneEdit']_vars

\* C5 witness: a finished batch whose edit matched two paragraphs of the base
\* document; the first now holds new_bullet and the second kept its text
C5_Witness ==
    /\ pc = "done"
    /\ Len(edits) = 1
    /\ Cardinality(Matches(edits[1])) >= 2
    /\ \E i, j \in Matches(edits[1]) :
         /\ i < j
         /\ doc[i].text = edits[1].new_bullet
         /\ doc[j].text = base[j].text
         /\ doc[j].text # edits[1].new_bullet
    /\ result.replaced = 1

\* C6: the output has the same number of paragraphs, in the same order, as
\* the base document; every paragraph that is not the first match of some
\* edit's old_bullet keeps its text (and the rest of its content); when every
\* edit misses, all paragraph texts equal those of the input.
C6_FrameOfParagraphs ==
    LET hitting == {k \in 1..Len(edits) : HasKey(edits[k]) /\ Matches(edits[k]) # {}}
        firsts == {Lowest(Matches(edits[k])) : k \in hitting}
    IN /\ Len(doc) = Len(base)
       /\ \A i \in 1..Len(base) : i \notin firsts => doc[i] = base[i]
       /\ hitting = {} => \A i \in 1..Len(base) : doc[i].text = base[i].text

\* C6 witness: a finished batch that rewrote one paragraph of a document of
\* three and left the other two as they were, one of them a duplicate match
C6_Witness ==
    /\ pc = "done"
    /\ Len(base) = 3
    /\ result.replaced >= 1
    /\ Cardinality({i \in 1..3 : doc[i] = base[i]}) = 2
    /\ \E k \in 1..Len(edits) : Cardinality(Matches(edits[k])) >= 2

\* the paragraph of the base document carrying a bookmark of this name
Anchored(name) ==
    {i \in 1..Len(base) :
        \E b \in 1..Len(base[i].bms) : base[i].bms[b].name = name}

\* C7: in a tagged document, an edit whose bullet_id is the name of a
\* bookmark replaces the text of the paragraph anchored by that bookmark,
\* bullet_id being used in preference to old_bullet (one-edit batches).
C7_BulletIdAddressing ==
    (pc = "done" /\ Len(edits) = 1 /\ edits[1].bullet_id # <<>>) =>
        \A i \in Anchored(edits[1].bullet_id) :
            doc[i].text = edits[1].new_bullet

\* C8: all edits are processed and replaced + missing equals the number of
\* edits.
C8_EveryEditCounted ==
    pc = "done" =>
        /\ result.k = Len(edits)
        /\ result.replaced + result.missing = Len(edits)

----------------------------------------------------------------------------
(* tools/plan_linter.py *)

GENERIC_PHRASES ==
    { <<"c","o","m","p","l","e","x">>,
      <<"v","a","r","i","o","u","s">>,
      <<"m","u","l","t","i","p","l","e">>,
      <<"k","e","y">>,
      <<"c","r","i","t","i","c","a","l">>,
      <<"r","o","b","u","s","t">>,
      <<"s","c","a","l","a","b","l","e">>,
      <<"o","p","t","i","m","i","z","e","d">>,
      <<"s","t","r","e","a","m","l","i","n","e","d">>,
      <<"l","e","v","e","r","a","g","e","d">>,
      <<"u","t","i","l","i","z","e","d">>,
      <<"i","m","p","r","o","v","e","d">>,
      <<"e","n","h","a","n","c","e","d">>,
      <<"m","a","i","n","t","a","i","n","e","d">>,
      <<"d","e","v","e","l","o","p","e","d">>,
      <<"i","m","p","l","e","m","e","n","t","e","d">>,
      <<"r","e","a","l","-","t","i","m","e">>,
      <<"k","p","i">>,
      <<"k","p","i","s">>,
      <<"s","t","a","k","e","h","o","l","d","e","r","s">>,
      <<"i","n","s","i","g","h","t","s">>,
      <<"i","m","p","a","c","t","f","u","l">>,
      <<"d","a","t","a","-","d","r","i","v","e","n">>,
      <<"e","n","d","-","t","o","-","e","n","d">>,
      <<"t","i","m","e","-","s","e","r","i","e","s">>,
      <<"t","i","m","e","s","e","r","i","e","s">>,
      <<"m","o","n","i","t","o","r","i","n","g">>,
      <<"m","a","r","k","e","t"," ","t","r","e","n","d","s">> }

DOMAIN_TERMS ==
    { <<"n","o","w","c","a","s","t","i","n","g">>,
      <<"i","n","f","l","a","t","i","o","n">>,
      <<"k","y","c">>,
      <<"a","m","l">>,
      <<"h","i","g","h","-","f","r","e","q","u","e","n","c","y">>,
      <<"e","h","r">>,
      <<"b","i","l","l","i","n","g">>,
      <<"c","l","i","n","i","c","a","l">>,
      <<"f","r","a","u","d">>,
      <<"r","i","s","k">>,
      <<"a","n","t">>,
      <<"a","n","t"," ","g","r","o","u","p">> }

\* the characters a _word_re match continues with: [A-Za-z0-9\-_/]
WordTailChars == Letters \cup DigitChars \cup {"-", "_", "/"}

\* \w of the regex engine, on the characters of the model
WordChars == Letters \cup DigitChars \cup {"_"}

\* the end of the maximal run of characters of C that starts at i (i-1: none)
RunEnd(s, i, C) ==
    CHOOSE j \in (i - 1)..Len(s) :
        /\ \A k \in i..j : s[k] \in C
        /\ (j = Len(s) \/ s[j + 1] \notin C)

RECURSIVE WordsFrom(_, _, _)
\* _word_re.findall: [A-Za-z][A-Za-z0-9\-_/]+, leftmost, greedy, not overlapping
WordsFrom(s, i, acc) ==
    IF i > Len(s) THEN acc
    ELSE IF s[i] \in Letters /\ i < Len(s) /\ s[i + 1] \in WordTailChars
         THEN LET j == RunEnd(s, i + 1, WordTailChars)
              IN WordsFrom(s, j + 1, Append(acc, SubSeq(s, i, j)))
         ELSE WordsFrom(s, i + 1, acc)

RECURSIVE AcronymsFrom(_, _, _)
\* _acronym_re.findall: \b[A-Z]{2,}\b
AcronymsFrom(s, i, acc) ==
    IF i > Len(s) THEN acc
    ELSE IF s[i] \in UpperChars /\ (i = 1 \/ s[i - 1] \notin WordChars)
         THEN LET j == RunEnd(s, i, UpperChars) IN
              IF j - i + 1 >= 2 /\ (j = Len(s) \/ s[j + 1] \notin WordChars)
              THEN AcronymsFrom(s, j + 1, Append(acc, SubSeq(s, i, j)))
              ELSE AcronymsFrom(s, i + 1, acc)
         ELSE AcronymsFrom(s, i + 1, acc)

\* re.sub(r"\s+", " ", s.strip())
_normalize(s) == Join(SplitWs(s), <<" ">>)

\* [t.lower() for t in _word_re.findall(text or "")]
extract_terms(text) ==
    LET ws == WordsFrom(text, 1, <<>>) IN [i \in 1..Len(ws) |-> Lower(ws[i])]

Range(f) == {f[i] : i \in DOMAIN f}

HasDigit(t) == \E i \in 1..Len(t) : t[i] \in DigitChars

\* (specific, counts)
specificity_terms(text) ==
    LET text_n == _normalize(text)
        terms == extract_terms(text_n)
        acr == AcronymsFrom(text_n, 1, <<>>)
    IN [specific |->
            {t \in Range(terms) : Contains(t, <<"-">>)}
            \cup {t \in Range(terms) : t \in DOMAIN_TERMS}
            \cup {Lower(a) : a \in Range(acr)}
            \cup {t \in Range(terms) : HasDigit(t)},
        counts |->
            [digits |-> IF HasDigit(text_n) THEN 1 ELSE 0,
             acronyms |-> Len(acr),
             hyphenated |->
                Cardinality({i \in 1..Len(terms) : Contains(terms[i], <<"-">>)})]]

EditIssue(kind, removed, added) ==
    [kind |-> kind, removed_terms |-> removed, added_terms |-> added]

\* the issues of one (old, new) pair, in the order the code appends them;
\* removed_terms/added_terms are sorted lists of a set, kept here as the set
lint_bullet_pair(old_bullet, new_bullet) ==
    LET old_n == _normalize(old_bullet)
        new_n == _normalize(new_bullet)
        old_s == specificity_terms(old_n)
        new_s == specificity_terms(new_n)
        removed_specific == old_s.specific \ new_s.specific
        new_terms == Range(extract_terms(new_n))
        old_terms == Range(extract_terms(old_n))
        added_generic == (new_terms \ old_terms) \cap GENERIC_PHRASES
    IN (IF removed_specific # {}
        THEN <<EditIssue("specificity_loss", removed_specific, {})>> ELSE <<>>)
       \o (IF added_generic # {} /\ removed_specific # {}
           THEN <<EditIssue("buzzword_drift", removed_specific, added_generic)>>
           ELSE <<>>)
       \o (IF new_s.counts.digits > old_s.counts.digits
           THEN <<EditIssue("new_metrics", {}, {})>> ELSE <<>>)
       \o (IF new_s.counts.acronyms > old_s.counts.acronyms
           THEN <<EditIssue("new_acronyms", {}, {})>> ELSE <<>>)

\* the bullet texts of the model's plans
BulletKyc ==
    <<"R","e","d","u","c","e","d"," ","K","Y","C"," ","b","a","c","k","l","o","g"," ","b","y"," ","2","0","0"," ","c","a","s","e","s">>
BulletGeneric ==
    <<"I","m","p","r","o","v","e","d"," ","o","p","e","r","a","t","i","o","n","a","l"," ","e","f","f","i","c","i","e","n","c","y">>
BulletQ3 ==
    <<"C","u","t"," ","Q","3"," ","c","h","u","r","n"," ","5","x">>
BulletChurn ==
    <<"C","u","t"," ","c","h","u","r","n">>

OldBullets == {BulletKyc, BulletQ3, <<>>}
NewBullets == {BulletGeneric, BulletChurn, BulletKyc, BulletQ3}

\* lint_bullet_pair on the bullet texts of the model, evaluated once and kept
\* in memo
LintTable ==
    {<<o, n, lint_bullet_pair(o, n)>> : o \in OldBullets, n \in NewBullets}

LintOf(old_bullet, new_bullet) ==
    (CHOOSE t \in memo.lint : t[1] = old_bullet /\ t[2] = new_bullet)[3]

\* flagged = any(iss.kind in {"specificity_loss", "buzzword_drift"} ...)
Flagged(issues) ==
    \E i \in 1..Len(issues) : issues[i].kind \in {"specificity_loss", "buzzword_drift"}

\* Python objects of one lint_and_gate_plan call, by reference: the caller's
\* plan dict Ref("plan", 0), its edits list Ref("list", 0) and the edit dicts
\* Ref("edit", i) in it; the dict and list the call creates, Ref("gated", 0)
\* and Ref("edits", 0), and the edit copies Ref("copy", i).
Ref(kind, i) == <<kind, i>>

\* the heap holding the caller's plan
PlanHeap(plan) ==
    (Ref("plan", 0) :> [edits |-> Ref("list", 0)])
    @@ (Ref("list", 0) :> [i \in 1..Len(plan.edits) |-> Ref("edit", i)])
    @@ [r \in {Ref("edit", i) : i \in 1..Len(plan.edits)} |-> plan.edits[r[2]]]

\* the plan a reference stands for: the dict, its list and the dicts in it
Deref(h, ref) ==
    LET list == h[h[ref].edits]
    IN [present |-> TRUE, edits |-> [i \in 1..Len(list) |-> h[list[i]]]]

\* a gate that writes the lint verdict over the planner's flag
GateEdit_Overwrite(h, i, flagged) ==
    LET e == h[h[Ref("edits", 0)][i]]
    IN (Ref("copy", i) :> [e EXCEPT !.needs_user_ok = flagged])
       @@ [h EXCEPT ![Ref("edits", 0)][i] = Ref("copy", i)]

\* a gate that sets the flag on the edit dict it was given
GateEdit_InPlace(h, i, flagged) ==
    IF flagged
    THEN [h EXCEPT ![h[Ref("edits", 0)][i]].needs_user_ok = TRUE]
    ELSE h

\* if flagged: e = dict(e); e["needs_user_ok"] = True; edits[i] = e
GateEdit(h, i, flagged) ==
    IF flagged
    THEN LET e == h[h[Ref("edits", 0)][i]]
         IN (Ref("copy", i) :> [e EXCEPT !.needs_user_ok = TRUE])
            @@ [h EXCEPT ![Ref("edits", 0)][i] = Ref("copy", i)]
    ELSE h

RECURSIVE GateLoop(_, _, _)
\* for i, e in enumerate(edits): lint, gate, append the report item
GateLoop(h, i, items) ==
    IF i > Len(h[Ref("edits", 0)]) THEN [heap |-> h, items |-> items]
    ELSE LET e == h[h[Ref("edits", 0)][i]]
             issues == LintOf(e.old_bullet, e.new_bullet)
             flagged == Flagged(issues)
             h2 == GateEdit(h, i, flagged)
         IN GateLoop(h2, i + 1,
                Append(items,
                   [index |-> i - 1,
                    bullet_id |-> h2[h2[Ref("edits", 0)][i]].bullet_id,
                    flagged |-> flagged,
                    issues |-> issues]))

\* the heap and the report items when lint_and_gate_plan returns
GateHeap(plan) ==
    LET h0 == PlanHeap(plan)
        \* gated = dict(plan)
        h1 == (Ref("gated", 0) :> h0[Ref("plan", 0)]) @@ h0
        \* edits = list(gated.get("edits") or [])
        h2 == (Ref("edits", 0) :> h1[h1[Ref("gated", 0)].edits]) @@ h1
        out == GateLoop(h2, 1, <<>>)
        \* gated["edits"] = edits
    IN [out EXCEPT !.heap[Ref("gated", 0)].edits = Ref("edits", 0)]

\* {gated_plan, lint_report}
lint_and_gate_plan(plan) ==
    LET out == GateHeap(plan)
        items == out.items
    IN [gated_plan |-> Deref(out.heap, Ref("gated", 0)),
        lint_report |->
            [summary |->
                [total_edits |-> Len(items),
                 flagged_edits |-> Cardinality({i \in 1..Len(items) : items[i].flagged})],
             edits |-> items]]

\* the caller's plan object as lint_and_gate_plan leaves it
CallerPlanAfter(plan) == Deref(GateHeap(plan).heap, Ref("plan", 0))

----------------------------------------------------------------------------
(* Specification SpecLint: the planner stores resume_edit_plan in session  *)
(* state; _validate_and_gate_resume_edit_plan reads it, lints it and       *)
(* writes the gated plan back, so every later pass reads the gated plan.   *)

\* the BulletEdit objects the planner may write
PlanEdits ==
    {Edit(o, n, <<>>, ok) : o \in OldBullets, n \in NewBullets, ok \in BOOLEAN}

Plans == {[present |-> TRUE, edits |-> es] : es \in SeqsUpTo(PlanEdits, MaxEdits)}

InitLint ==
    /\ pc = "lint"
    /\ doc = <<>>
    /\ base = <<>>
    /\ edits = <<>>
    /\ result = NoResult
    /\ state \in [resume_edit_plan : Plans \cup {NoPlan}, plan_lint_report : {NoReport}]
    /\ prev_plan = NoPlan
    /\ passes = 0
    /\ inputs = IdleInputs
    /\ artifacts = IdleArtifacts
    /\ memo = [lint |-> LintTable]

\* resume_planner (output_key): the plan arrives in session state
PlannerWritesPlan ==
    /\ pc = "lint"
    /\ ~state.resume_edit_plan.present
    /\ \E plan \in Plans : state' = [state EXCEPT !.resume_edit_plan = plan]
    /\ UNCHANGED <<pc, doc, base, edits, result, prev_plan, passes, inputs, artifacts, memo>>

\* _validate_and_gate_resume_edit_plan with no plan in session state
ValidateNoPlan ==
    /\ pc = "lint"
    /\ passes < MaxPasses
    /\ ~state.resume_edit_plan.present
    /\ result' = [status |-> "error"]
    /\ passes' = passes + 1
    /\ UNCHANGED <<pc, doc, base, edits, state, prev_plan, inputs, artifacts, memo>>

\* _validate_and_gate_resume_edit_plan: lint, overwrite the plan, store the report
ValidateAndGate ==
    /\ pc = "lint"
    /\ passes < MaxPasses
    /\ state.resume_edit_plan.present
    /\ LET out == lint_and_gate_plan(state.resume_edit_plan) IN
         /\ state' = [resume_edit_plan |-> out.gated_plan,
                      plan_lint_report |-> out.lint_report]
         /\ result' = [status |-> "success", summary |-> out.lint_report.summary]
    /\ prev_plan' = CallerPlanAfter(state.resume_edit_plan)
    /\ passes' = passes + 1
    /\ UNCHANGED <<pc, doc, base, edits, inputs, artifacts, memo>>

NextLint == PlannerWritesPlan \/ ValidateNoPlan \/ ValidateAndGate

SpecLint == InitLint /\ [][NextLint]_vars

(* Properties of SpecLint *)

GatingKinds == {"specificity_loss", "buzzword_drift"}

\* the lint report in session state names a gating issue for edit i
IssueRaised(i) ==
    LET iss == state.plan_lint_report.edits[i].issues IN
    \E n \in 1..Len(iss) : iss[n].kind \in GatingKinds

\* C2 (gating): after a lint pass, every edit for which a specificity_loss or
\* buzzword_drift issue was raised has needs_user_ok = true.
C2_Gated ==
    (result.status = "success" /\ pc = "lint") =>
        /\ Len(state.plan_lint_report.edits) = Len(state.resume_edit_plan.edits)
        /\ \A i \in 1..Len(state.resume_edit_plan.edits) :
             IssueRaised(i) => state.resume_edit_plan.edits[i].needs_user_ok

\* C2 (monotonic): no step of the pipeline turns an edit's needs_user_ok,
\* set by the planner or by an earlier pass, from true to false.
C2_Step ==
    (pc = "lint" /\ state.resume_edit_plan.present) =>
        /\ state'.resume_edit_plan.present
        /\ Len(state'.resume_edit_plan.edits) = Len(state.resume_edit_plan.edits)
        /\ \A i \in 1..Len(state.resume_edit_plan.edits) :
             state.resume_edit_plan.edits[i].needs_user_ok
                => state'.resume_edit_plan.edits[i].needs_user_ok

\* C2: gating after every pass, and needs_user_ok never cleared (C2_Gated
\* holds initially: no pass has returned yet)
C2_GateMonotonic == [][C2_Step /\ C2_Gated']_vars

\* C2 witness: two passes have run over a plan in which the planner had set
\* needs_user_ok on an edit the linter finds nothing wrong with, and the
\* linter has flagged another edit the planner had not
C2_Witness ==
    /\ pc = "lint"
    /\ passes >= 2
    /\ result.status = "success"
    /\ Len(state.resume_edit_plan.edits) = 2
    /\ \E i, j \in 1..2 :
         /\ ~IssueRaised(i)
         /\ state.resume_edit_plan.edits[i].needs_user_ok
         /\ IssueRaised(j)
         /\ state.resume_edit_plan.edits[j].needs_user_ok
         /\ state.resume_edit_plan.edits[j].old_bullet = BulletKyc
         /\ state.resume_edit_plan.edits[j].new_bullet = BulletGeneric

\* every field but needs_user_ok
Unflagged(e) == [e EXCEPT !.needs_user_ok = FALSE]

C16_Step ==
    (passes' = passes + 1 /\ state.resume_edit_plan.present) =>
        /\ prev_plan' = state.resume_edit_plan
        /\ Len(state'.resume_edit_plan.edits) = Len(state.resume_edit_plan.edits)
        /\ \A i \in 1..Len(state.resume_edit_plan.edits) :
              Unflagged(state'.resume_edit_plan.edits[i])
                 = Unflagged(state.resume_edit_plan.edits[i])

\* C16: lint_and_gate_plan leaves its input plan and the input edit objects
\* unchanged (after the call the caller's plan object still has the value it
\* was passed with), and the gated plan it returns has the same edits in the
\* same order with every field other than needs_user_ok, in particular
\* old_bullet and new_bullet, equal to the input.
C16_AnnotationOnly == [][C16_Step]_vars

\* C16 witness: a pass has gated an edit of a two-edit plan; the caller's plan
\* object still has that edit with needs_user_ok = false, the gated plan has
\* it with needs_user_ok = true
C16_Witness ==
    /\ pc = "lint"
    /\ result.status = "success"
    /\ prev_plan.present
    /\ Len(prev_plan.edits) = 2
    /\ \E i \in 1..2 :
         /\ ~prev_plan.edits[i].needs_user_ok
         /\ state.resume_edit_plan.edits[i].needs_user_ok
         /\ Unflagged(state.resume_edit_plan.edits[i]) = prev_plan.edits[i]

\* the whitespace-separated tokens of a bullet, case-folded
BulletTokens(text) == {Lower(t) : t \in Range(SplitWs(text))}

\* C17: for every (old, new) bullet pair, each token of the old bullet that
\* contains a digit (purely numeric tokens such as 200 included) and does not
\* occur in the new bullet is in the removed set: lint_bullet_pair raises
\* specificity_loss and lists that token in removed_terms.  Stated on the
\* report a lint pass stores for the plan in session state.
C17_DigitTokensReported ==
    (pc = "lint" /\ result.status = "success") =>
        \A i \in 1..Len(state.resume_edit_plan.edits) :
            LET e == state.resume_edit_plan.edits[i]
                iss == state.plan_lint_report.edits[i].issues
                lost == {t \in BulletTokens(e.old_bullet) :
                            HasDigit(t) /\ t \notin BulletTokens(e.new_bullet)}
            IN lost # {} =>
                  \E n \in 1..Len(iss) :
                      /\ iss[n].kind = "specificity_loss"
                      /\ lost \subseteq iss[n].removed_terms

\* the number of whitespace-separated tokens of text that contain a digit
DigitTokenCount(text) ==
    LET toks == SplitWs(text)
    IN Cardinality({k \in 1..Len(toks) : HasDigit(toks[k])})

\* C23: lint_bullet_pair raises new_metrics exactly when the new bullet holds
\* strictly more digit-bearing tokens than the old bullet, also when the old
\* bullet already holds one.  Stated on the report a lint pass stores for the
\* plan in session state.
C23_NewMetricsByCount ==
    (pc = "lint" /\ result.status = "success") =>
        \A i \in 1..Len(state.resume_edit_plan.edits) :
            LET e == state.resume_edit_plan.edits[i]
                iss == state.plan_lint_report.edits[i].issues
            IN (\E n \in 1..Len(iss) : iss[n].kind = "new_metrics")
                  <=> DigitTokenCount(e.new_bullet) > DigitTokenCount(e.old_bullet)

----------------------------------------------------------------------------
(* src/tools/dry_run_stub.py: term extraction and JD profiling *)

STOPWORDS ==
    { <<"a">>, <<"a","b","i","l","i","t","y">>, <<"a","b","o","u","t">>, <<"a","c","r","o","s","s">>,
      <<"a","n">>, <<"a","n","a","l","y","s","i","s">>, <<"a","n","a","l","y","t","i","c","s">>, <<"a","n","d">>,
      <<"a","r","e">>, <<"a","s">>, <<"a","t">>, <<"b","e">>,
      <<"b","e","e","n">>, <<"b","e","i","n","g">>, <<"b","u","s","i","n","e","s","s">>, <<"b","u","t">>,
      <<"b","y">>, <<"c","a","n">>, <<"c","o","u","l","d">>, <<"d","a","t","a">>,
      <<"e","l","s","e">>, <<"e","t","c">>, <<"e","x","c","e","l","l","e","n","t">>, <<"e","x","p","e","r","i","e","n","c","e">>,
      <<"f","a","m","i","l","i","a","r">>, <<"f","o","r">>, <<"f","r","o","m">>, <<"h","e","l","p">>,
      <<"i","f">>, <<"i","m","p","a","c","t">>, <<"i","n">>, <<"i","n","c","l","u","d","e">>,
      <<"i","n","c","l","u","d","i","n","g">>, <<"i","n","t","o">>, <<"i","s">>, <<"i","t">>,
      <<"i","t","s">>, <<"k","n","o","w","l","e","d","g","e">>, <<"m","a","y">>, <<"m","i","g","h","t">>,
      <<"m","o","d","e","l">>, <<"m","o","d","e","l","s">>, <<"n","o">>, <<"n","o","t">>,
      <<"o","f">>, <<"o","n">>, <<"o","r">>, <<"o","u","r">>,
      <<"o","v","e","r">>, <<"p","r","o","c","e","s","s">>, <<"p","r","o","c","e","s","s","e","s">>, <<"p","r","o","f","i","c","i","e","n","t">>,
      <<"r","e","q","u","i","r","e","m","e","n","t">>, <<"r","e","q","u","i","r","e","m","e","n","t","s">>, <<"r","e","s","p","o","n","s","i","b","i","l","i","t","i","e","s">>, <<"r","e","s","p","o","n","s","i","b","l","e">>,
      <<"r","e","s","u","l","t">>, <<"r","e","s","u","l","t","s">>, <<"r","o","l","e">>, <<"s","h","o","u","l","d">>,
      <<"s","k","i","l","l">>, <<"s","k","i","l","l","s">>, <<"s","t","r","o","n","g">>, <<"s","u","p","p","o","r","t">>,
      <<"s","y","s","t","e","m">>, <<"s","y","s","t","e","m","s">>, <<"t","e","a","m">>, <<"t","e","c","h","n","i","c","a","l">>,
      <<"t","h","a","n">>, <<"t","h","a","t">>, <<"t","h","e">>, <<"t","h","e","i","r">>,
      <<"t","h","e","n">>, <<"t","h","e","s","e">>, <<"t","h","e","y">>, <<"t","h","i","s">>,
      <<"t","h","o","s","e">>, <<"t","o">>, <<"u","n","d","e","r">>, <<"u","s","e">>,
      <<"u","s","e","d">>, <<"u","s","i","n","g">>, <<"w","a","s">>, <<"w","e">>,
      <<"w","e","r","e">>, <<"w","h","e","n">>, <<"w","h","i","l","e">>, <<"w","i","l","l">>,
      <<"w","i","t","h">>, <<"w","i","t","h","i","n">>, <<"w","o","r","k">>, <<"w","o","r","k","i","n","g">>,
      <<"w","o","r","k","s">>, <<"w","o","u","l","d">>, <<"y","e","s">>, <<"y","i","e","l","d">>,
      <<"y","o","u">>, <<"y","o","u","r">> }

PHRASE_WHITELIST ==
    { <<<<"d","a","t","a">>, <<"p","i","p","e","l","i","n","e">>>>,
      <<<<"d","e","e","p">>, <<"l","e","a","r","n","i","n","g">>>>,
      <<<<"e","t","l">>, <<"p","i","p","e","l","i","n","e">>>>,
      <<<<"h","i","g","h">>, <<"f","r","e","q","u","e","n","c","y">>>>,
      <<<<"l","a","n","g","u","a","g","e">>, <<"m","o","d","e","l">>>>,
      <<<<"l","a","n","g","u","a","g","e">>, <<"m","o","d","e","l","s">>>>,
      <<<<"l","a","r","g","e">>, <<"l","a","n","g","u","a","g","e">>>>,
      <<<<"m","a","c","h","i","n","e">>, <<"l","e","a","r","n","i","n","g">>>>,
      <<<<"n","a","t","u","r","a","l">>, <<"l","a","n","g","u","a","g","e">>>>,
      <<<<"r","e","a","l">>, <<"t","i","m","e">>>>,
      <<<<"r","i","s","k">>, <<"m","a","n","a","g","e","m","e","n","t">>>>,
      <<<<"s","q","l">>, <<"s","e","r","v","e","r">>>>,
      <<<<"t","i","m","e">>, <<"s","e","r","i","e","s">>>> }

GENERIC_TOKENS ==
    { <<"a","n","a","l","y","s","i","s">>, <<"a","n","a","l","y","t","i","c","s">>, <<"b","u","i","l","d","i","n","g">>, <<"b","u","i","l","t">>,
      <<"b","u","s","i","n","e","s","s">>, <<"d","a","t","a">>, <<"d","e","v","e","l","o","p">>, <<"d","e","v","e","l","o","p","e","d">>,
      <<"i","m","p","r","o","v","e">>, <<"i","m","p","r","o","v","e","m","e","n","t">>, <<"i","n","s","i","g","h","t">>, <<"i","n","s","i","g","h","t","s">>,
      <<"m","o","d","e","l">>, <<"m","o","d","e","l","s">>, <<"o","p","t","i","m","i","z","a","t","i","o","n">>, <<"o","p","t","i","m","i","z","e">>,
      <<"p","r","o","j","e","c","t">>, <<"p","r","o","j","e","c","t","s">>, <<"s","o","l","u","t","i","o","n">>, <<"s","o","l","u","t","i","o","n","s">>,
      <<"s","t","a","k","e","h","o","l","d","e","r">>, <<"s","t","a","k","e","h","o","l","d","e","r","s">>, <<"t","e","a","m">> }

HARD_SKILL_TOKENS ==
    { <<"a","i","r","f","l","o","w">>, <<"c","l","a","s","s","i","f","i","c","a","t","i","o","n">>, <<"c","l","u","s","t","e","r","i","n","g">>, <<"d","b","t">>,
      <<"e","t","l">>, <<"e","x","c","e","l">>, <<"f","o","r","e","c","a","s","t">>, <<"f","o","r","e","c","a","s","t","i","n","g">>,
      <<"h","a","d","o","o","p">>, <<"l","l","m">>, <<"n","l","p">>, <<"n","o","w","c","a","s","t","i","n","g">>,
      <<"p","i","p","e","l","i","n","e">>, <<"p","i","p","e","l","i","n","e","s">>, <<"p","o","w","e","r","_","b","i">>, <<"p","o","w","e","r","b","i">>,
      <<"p","y","s","p","a","r","k">>, <<"p","y","t","h","o","n">>, <<"r","e","g","r","e","s","s","i","o","n">>, <<"s","p","a","r","k">>,
      <<"s","q","l">>, <<"t","a","b","l","e","a","u">>, <<"t","i","m","e","_","s","e","r","i","e","s">> }

OVERLAP_MULTIPLIER == 10
HARD_SKILL_BOOST_PER_MATCH == 2
PINNED_EXP_BONUS == 25
RECENCY_BOOST_MAX == 6

\* ord(c) of the punctuation characters of the model
PunctCodes ==
    { <<"\t", 9>>, <<"\n", 10>>, <<" ", 32>>, <<"!", 33>>, <<"#", 35>>, <<"$", 36>>,
      <<"%", 37>>, <<"&", 38>>, <<"'", 39>>, <<"(", 40>>, <<")", 41>>, <<"*", 42>>,
      <<"+", 43>>, <<",", 44>>, <<"-", 45>>, <<".", 46>>, <<"/", 47>>, <<":", 58>>,
      <<";", 59>>, <<"<", 60>>, <<"=", 61>>, <<">", 62>>, <<"?", 63>>, <<"@", 64>>,
      <<"[", 91>>, <<"]", 93>>, <<"^", 94>>, <<"_", 95>>, <<"{", 123>>, <<"|", 124>>,
      <<"}", 125>>, <<"~", 126>> }

\* ord(c) for the characters of the model (8203 is the zero-width space)
CodeOf(c) ==
    IF c \in DigitChars THEN 47 + (CHOOSE i \in 1..10 : DigitSeq[i] = c)
    ELSE IF c \in UpperChars THEN 64 + (CHOOSE i \in 1..26 : UpperSeq[i] = c)
    ELSE IF c \in LowerChars THEN 96 + (CHOOSE i \in 1..26 : LowerSeq[i] = c)
    ELSE IF \E r \in PunctCodes : r[1] = c
         THEN (CHOOSE r \in PunctCodes : r[1] = c)[2]
         ELSE 8203

\* a < b for Python strings: code-point order, a proper prefix first
StrLess(a, b) ==
    \E n \in 0..Len(a) :
        /\ n <= Len(b)
        /\ \A i \in 1..n : a[i] = b[i]
        /\ \/ (n = Len(a) /\ n < Len(b))
           \/ (n < Len(a) /\ n < Len(b) /\ CodeOf(a[n + 1]) < CodeOf(b[n + 1]))

\* the characters a unigram match continues with: [a-zA-Z0-9_+.-]
UnigramTailChars == Letters \cup DigitChars \cup {"_", "+", ".", "-"}

\* t.strip(".,;:()[]{}<>\"'!")
StripPunct(t) ==
    LET punct == {".", ",", ";", ":", "(", ")", "[", "]", "{", "}", "<", ">",
                  "\"", "'", "!"}
        keep == {i \in 1..Len(t) : t[i] \notin punct}
    IN IF keep = {} THEN <<>>
       ELSE SubSeq(t, CHOOSE i \in keep : \A j \in keep : i <= j,
                      CHOOSE i \in keep : \A j \in keep : j <= i)

\* re.findall(r"[a-zA-Z][a-zA-Z0-9_+.-]{1,}", s).  Every letter is one of
\* the characters a match continues with, so a match runs to the end of the
\* maximal run of those characters it starts in, and each such run holds at
\* most one match: from its first letter that is not its last character.
RawUnigrams(s) ==
    LET run_start(a) == s[a] \in UnigramTailChars
                        /\ (a = 1 \/ s[a - 1] \notin UnigramTailChars)
        run_end(a) == RunEnd(s, a, UnigramTailChars)
        hits == SelectSeq([i \in 1..Len(s) |-> i],
                    LAMBDA a : run_start(a)
                               /\ \E p \in a..(run_end(a) - 1) : s[p] \in Letters)
    IN [k \in 1..Len(hits) |->
          LET a == hits[k]
              b == run_end(a)
              p == CHOOSE q \in a..(b - 1) :
                       s[q] \in Letters /\ \A r \in a..(q - 1) : s[r] \notin Letters
          IN SubSeq(s, p, b)]

\* [t for t in tokens if t and t not in STOPWORDS and len(t) >= 3]
KeptTokens(tokens) ==
    SelectSeq(tokens, LAMBDA t : t # <<>> /\ t \notin STOPWORDS /\ Len(t) >= 3)

_tokenize_unigrams(text) ==
    LET raw == RawUnigrams(Lower(text))
    IN KeptTokens([i \in 1..Len(raw) |-> StripPunct(raw[i])])

\* f"{a}_{b}"
BigramTerm(a, b) == a \o <<"_">> \o b

\* the loop over bigram_counts.items(): the distinct adjacent pairs in the
\* order of their first occurrence, each with its count c
BigramTerms(uni) ==
    LET pairs == [i \in 1..(Len(uni) - 1) |-> i]
        same(i, j) == uni[i] = uni[j] /\ uni[i + 1] = uni[j + 1]
        first(i) == \A j \in 1..(i - 1) : ~same(i, j)
        c(i) == Cardinality({j \in 1..(Len(uni) - 1) : same(i, j)})
        chosen == SelectSeq(pairs, LAMBDA i :
                      /\ first(i)
                      /\ \/ <<uni[i], uni[i + 1]>> \in PHRASE_WHITELIST
                         \/ /\ c(i) >= 2
                            /\ ~(uni[i] \in GENERIC_TOKENS /\ uni[i + 1] \in GENERIC_TOKENS))
    IN [k \in 1..Len(chosen) |-> BigramTerm(uni[chosen[k]], uni[chosen[k] + 1])]

\* unigrams, then the selected bigrams
_extract_terms(text) ==
    LET uni == _tokenize_unigrams(text) IN uni \o BigramTerms(uni)

\* a sort key of the term alone
KeywordBefore_TermOnly(x, y) == StrLess(x[1], y[1])

\* the sort key (-count, term) of two distinct (term, count) pairs
KeywordBefore(x, y) == x[2] > y[2] \/ (x[2] = y[2] /\ StrLess(x[1], y[1]))

RECURSIVE SortKeywords(_)
\* sorted(items, key=lambda kv: (-kv[1], kv[0])); the terms are distinct
SortKeywords(items) ==
    IF items = {} THEN <<>>
    ELSE LET m == CHOOSE x \in items : \A y \in items \ {x} : KeywordBefore(x, y)
         IN <<m>> \o SortKeywords(items \ {m})

\* the first k elements of a sequence: s[:k]
Take(s, k) == SubSeq(s, 1, IF k < Len(s) THEN k ELSE Len(s))

\* [(term, count)], by count descending then term ascending, at most k
_top_keywords(text, k) ==
    LET terms == _extract_terms(text)
        raw_freq(t) == Cardinality({i \in 1..Len(terms) : terms[i] = t})
        freq(t) == IF t \in GENERIC_TOKENS
                   THEN (IF raw_freq(t) - 1 > 0 THEN raw_freq(t) - 1 ELSE 0)
                   ELSE raw_freq(t)
        items == {<<t, freq(t)>> : t \in {u \in Range(terms) : freq(u) > 0}}
    IN Take(SortKeywords(items), k)


----------------------------------------------------------------------------
(* src/tools/dry_run_stub.py: evidence snippets *)

\* the bullet character U+2022 of bullet_re
BULLET_CHAR == "\\u2022"

\* the pieces of s between the one-character separators at the positions
\* seps: empty pieces are kept
SplitAt(s, seps) ==
    LET n == Cardinality(seps)
        pos(k) == IF k = 0 THEN 0
                  ELSE IF k = n + 1 THEN Len(s) + 1
                  ELSE CHOOSE i \in seps : Cardinality({j \in seps : j < i}) = k - 1
    IN [k \in 1..(n + 1) |-> SubSeq(s, pos(k - 1) + 1, pos(k) - 1)]

\* s.split(c) for a one-character separator
SplitOn(s, c) == SplitAt(s, {i \in 1..Len(s) : s[i] = c})

\* re.sub(r"[\t ]+", " ", ln): a run of blanks keeps its first, as a space
CollapseBlanks(ln) ==
    LET blank(i) == ln[i] \in {" ", "\t"}
        kept == SelectSeq([i \in 1..Len(ln) |-> i],
                          LAMBDA i : ~(blank(i) /\ i > 1 /\ blank(i - 1)))
    IN [k \in 1..Len(kept) |-> IF blank(kept[k]) THEN " " ELSE ln[kept[k]]]

\* re.sub(r"\s+", " ", s.strip())
CollapseWs(s) ==
    LET t == Strip(s)
        ws(i) == t[i] \in Whitespace
        kept == SelectSeq([i \in 1..Len(t) |-> i], LAMBDA i : ~(ws(i) /\ ws(i - 1)))
    IN [k \in 1..Len(kept) |-> IF ws(kept[k]) THEN " " ELSE t[kept[k]]]

\* str.rstrip()
RStrip(s) ==
    LET keep == {i \in 1..Len(s) : s[i] \notin Whitespace} IN
    IF keep = {} THEN <<>>
    ELSE SubSeq(s, 1, CHOOSE i \in keep : \A j \in keep : j <= i)

\* the texts of the model hold no carriage return, so the two replace()
\* calls change nothing
_normalize_ws_keep_newlines(text) ==
    LET lines == SplitOn(text, "\n")
    IN Strip(Join([i \in 1..Len(lines) |-> RStrip(CollapseBlanks(lines[i]))],
                  <<"\n">>))

RECURSIVE ParasFrom(_, _, _)
\* re.split(r"\n\s*\n+", text) on normalised text, whose lines carry no
\* trailing whitespace: the maximal runs of non-empty lines
ParasFrom(lines, cur, acc) ==
    IF lines = <<>> THEN (IF cur = <<>> THEN acc ELSE Append(acc, Join(cur, <<"\n">>)))
    ELSE IF lines[1] = <<>>
         THEN ParasFrom(Tail(lines), <<>>,
                        IF cur = <<>> THEN acc ELSE Append(acc, Join(cur, <<"\n">>)))
         ELSE ParasFrom(Tail(lines), Append(cur, lines[1]), acc)

RECURSIVE NonEmptyStripped(_)
\* [p.strip() for p in parts if p.strip()]
NonEmptyStripped(parts) ==
    IF parts = <<>> THEN <<>>
    ELSE (IF Strip(parts[1]) # <<>> THEN <<Strip(parts[1])>> ELSE <<>>)
         \o NonEmptyStripped(Tail(parts))

_split_paragraphs(text) ==
    LET t == _normalize_ws_keep_newlines(text) IN
    IF t = <<>> THEN <<>>
    ELSE NonEmptyStripped(ParasFrom(SplitOn(t, "\n"), <<>>, <<>>))

\* the length of the match of bullet_re = ^\s*(?:[-*•]|\d+\.)\s+ at the
\* start of ln, 0 when it does not match
BulletMarkerLen(ln) ==
    LET w == RunEnd(ln, 1, Whitespace)
        d == RunEnd(ln, w + 1, DigitChars)
        m == IF w < Len(ln) /\ ln[w + 1] \in {"-", "*", BULLET_CHAR} THEN w + 1
             ELSE IF d > w /\ d < Len(ln) /\ ln[d + 1] = "." THEN d + 1
             ELSE 0
    IN IF m = 0 THEN 0
       ELSE LET e == RunEnd(ln, m + 1, Whitespace) IN IF e > m THEN e ELSE 0

\* bullet_re.sub("", ln).strip()
BulletText(ln) == Strip(SubSeq(ln, BulletMarkerLen(ln) + 1, Len(ln)))

\* re.split(r"(?<=[.!?])\s+", flat): flat holds single spaces only
Sentences(flat) ==
    SplitAt(flat, {i \in 2..Len(flat) : flat[i] = " " /\ flat[i - 1] \in {".", "!", "?"}})

RECURSIVE KeepLong(_, _)
\* the stripped texts of at least n characters
KeepLong(parts, n) ==
    IF parts = <<>> THEN <<>>
    ELSE (IF Len(Strip(parts[1])) >= n THEN <<Strip(parts[1])>> ELSE <<>>)
         \o KeepLong(Tail(parts), n)

RECURSIVE BulletLines(_)
\* [ln for ln in lines if bullet_re.match(ln)]
BulletLines(lines) ==
    IF lines = <<>> THEN <<>>
    ELSE (IF BulletMarkerLen(lines[1]) > 0 THEN <<lines[1]>> ELSE <<>>)
         \o BulletLines(Tail(lines))

Snippet(text, para_idx, kind) == [text |-> text, para_idx |-> para_idx, kind |-> kind]

\* the candidates of one paragraph (para_idx counts from 0)
ParaSnippets(para, para_idx) ==
    LET lines == NonEmptyStripped(SplitOn(para, "\n"))
        bullet_lines == BulletLines(lines)
        half == Len(lines) \div 2
        flat == CollapseWs(para)
        kept == KeepLong(Sentences(flat), 60)
    IN IF bullet_lines # <<>> /\ Len(bullet_lines) >= (IF half > 2 THEN half ELSE 2)
       THEN LET texts == KeepLong([i \in 1..Len(bullet_lines) |->
                                       BulletText(bullet_lines[i])], 50)
            IN [i \in 1..Len(texts) |-> Snippet(texts[i], para_idx, "bullet")]
       ELSE IF kept # <<>>
            THEN [i \in 1..Len(kept) |-> Snippet(kept[i], para_idx, "sentence")]
       ELSE IF Len(flat) >= 80 THEN <<Snippet(flat, para_idx, "paragraph")>>
       ELSE <<>>

RECURSIVE SnippetsFrom(_, _)
SnippetsFrom(paras, i) ==
    IF i > Len(paras) THEN <<>>
    ELSE ParaSnippets(paras[i], i - 1) \o SnippetsFrom(paras, i + 1)

extract_evidence_snippets(exp_body) == SnippetsFrom(_split_paragraphs(exp_body), 1)

----------------------------------------------------------------------------
(* src/tools/dry_run_stub.py: the job descriptions and the experience bank *)
(* of the model.  An Experience is the record parse_experience_bank_md     *)
(* builds from one "## Company | Title | Location | Dates" section; a      *)
(* field that is None is the empty text.                                   *)

JdAnalyst ==
    <<"L","o","o","k","i","n","g"," ","f","o","r"," ","a"," ","S","Q",
      "L"," ","a","n","a","l","y","s","t"," ","w","i","t","h"," ","r",
      "e","t","a","i","l"," ","r","e","p","o","r","t","i","n","g"," ",
      "e","x","p","e","r","i","e","n","c","e",".">>

JdEngineer ==
    <<"S","e","e","k","i","n","g"," ","a"," ","P","y","t","h","o","n",
      " ","e","n","g","i","n","e","e","r"," ","f","o","r"," ","S","p",
      "a","r","k"," ","f","o","r","e","c","a","s","t","i","n","g"," ",
      "o","n"," ","A","W","S",".">>

ExpAcme ==
    [exp_id |-> <<"a","c","m","e","_","a","n","a","l","y","s","t","_","2","0","2",
                  "0","_","2","0","2","2">>,
     header |-> <<"A","c","m","e"," ","|"," ","A","n","a","l","y","s","t"," ","|",
                  " ","N","Y"," ","|"," ","2","0","2","0","-","2","0","2","2">>,
     company |-> <<"A","c","m","e">>,
     title |-> <<"A","n","a","l","y","s","t">>,
     dates |-> <<"2","0","2","0","-","2","0","2","2">>,
     location |-> <<"N","Y">>,
     body |->
       <<"L","e","d"," ","S","Q","L"," ","r","e","p","o","r","t","i","n",
         "g"," ","f","o","r"," ","a"," ","5","0","0","-","s","t","o","r",
         "e"," ","r","e","t","a","i","l"," ","c","h","a","i","n",","," ",
         "c","u","t","t","i","n","g"," ","r","e","p","o","r","t"," ","t",
         "i","m","e"," ","4","0","%",".">>]

ExpZeta ==
    [exp_id |-> <<"z","e","t","a","_","e","n","g","i","n","e","e","r","_","2","0",
                  "2","3","_","2","0","2","4">>,
     header |-> <<"Z","e","t","a"," ","|"," ","E","n","g","i","n","e","e","r"," ",
                  "|"," ","S","F"," ","|"," ","2","0","2","3","-","2","0","2","4">>,
     company |-> <<"Z","e","t","a">>,
     title |-> <<"E","n","g","i","n","e","e","r">>,
     dates |-> <<"2","0","2","3","-","2","0","2","4">>,
     location |-> <<"S","F">>,
     body |->
       <<"B","u","i","l","t"," ","P","y","t","h","o","n"," ","a","n","d",
         " ","S","p","a","r","k"," ","f","o","r","e","c","a","s","t","i",
         "n","g"," ","j","o","b","s"," ","o","n"," ","A","W","S",".">>]

ExpBeta ==
    [exp_id |-> <<"b","e","t","a","_","c","l","e","r","k","_","2","0","1","5","_",
                  "2","0","1","6">>,
     header |-> <<"B","e","t","a"," ","|"," ","C","l","e","r","k"," ","|"," ","L",
                  "A"," ","|"," ","2","0","1","5","-","2","0","1","6">>,
     company |-> <<"B","e","t","a">>,
     title |-> <<"C","l","e","r","k">>,
     dates |-> <<"2","0","1","5","-","2","0","1","6">>,
     location |-> <<"L","A">>,
     body |->
       <<"F","i","l","e","d"," ","r","e","t","a","i","l"," ","i","n","v",
         "o","i","c","e","s",".">>]

ExpGamma ==
    [exp_id |-> <<"g","a","m","m","a","_","s","q","l","_","a","n","a","l","y","s",
                  "t","_","2","0","1","9">>,
     header |-> <<"G","a","m","m","a"," ","|"," ","S","Q","L"," ","A","n","a","l",
                  "y","s","t"," ","|"," ","T","X"," ","|"," ","2","0","1","9">>,
     company |-> <<"G","a","m","m","a">>,
     title |-> <<"S","Q","L"," ","A","n","a","l","y","s","t">>,
     dates |-> <<"2","0","1","9">>,
     location |-> <<"T","X">>,
     body |->
       <<"R","a","n"," ","w","e","e","k","l","y"," ","a","u","d","i","t",
         "s",".","\n","\n","T","r","a","i","n","e","d"," ","n","e","w"," ",
         "s","t","a","f","f",".">>]

ExpDelta ==
    [exp_id |-> <<"d","e","l","t","a","_","a","n","a","l","y","s","t","_","2","0",
                  "2","1">>,
     header |-> <<"D","e","l","t","a"," ","|"," ","A","n","a","l","y","s","t"," ",
                  "|"," ","N","Y"," ","|"," ","2","0","2","1">>,
     company |-> <<"D","e","l","t","a">>,
     title |-> <<"A","n","a","l","y","s","t">>,
     dates |-> <<"2","0","2","1">>,
     location |-> <<"N","Y">>,
     body |->
       <<"-"," ","A","u","t","o","m","a","t","e","d"," ","r","e","t","a",
         "i","l"," ","r","e","p","o","r","t","i","n","g"," ","i","n"," ",
         "S","Q","L",","," ","s","a","v","i","n","g"," ","t","e","n"," ",
         "h","o","u","r","s"," ","e","a","c","h"," ","w","e","e","k",".",
         "\n","-"," ","W","r","o","t","e"," ","P","y","t","h","o","n"," ",
         "c","h","e","c","k","s"," ","f","o","r"," ","t","h","e"," ","n",
         "i","g","h","t","l","y"," ","r","e","t","a","i","l"," ","s","a",
         "l","e","s"," ","r","e","p","o","r","t","i","n","g"," ","f","e",
         "e","d",".","\n","-"," ","M","e","n","t","o","r","e","d"," ","t",
         "w","o"," ","i","n","t","e","r","n","s",".">>]

\* a second section with the company, title and dates of ExpDelta: the same
\* exp_id, another location and body
ExpDeltaLA ==
    [exp_id |-> <<"d","e","l","t","a","_","a","n","a","l","y","s","t","_","2","0",
                   "2","1">>,
     header |-> <<"D","e","l","t","a"," ","|"," ","A","n","a","l","y","s","t"," ",
                   "|"," ","L","A"," ","|"," ","2","0","2","1">>,
     company |-> <<"D","e","l","t","a">>,
     title |-> <<"A","n","a","l","y","s","t">>,
     dates |-> <<"2","0","2","1">>,
     location |-> <<"L","A">>,
     body |->
       <<"-"," ","C","h","e","c","k","e","d"," ","r","e","t","a","i","l",
         " ","s","t","o","c","k"," ","c","o","u","n","t","s"," ","a","g",
         "a","i","n","s","t"," ","t","h","e"," ","w","a","r","e","h","o",
         "u","s","e"," ","l","e","d","g","e","r","s",".","\n","-"," ","W",
         "r","o","t","e"," ","P","y","t","h","o","n"," ","s","c","r","i",
         "p","t","s"," ","t","o"," ","l","o","a","d"," ","r","e","t","a",
         "i","l"," ","p","r","i","c","e","s"," ","i","n","t","o"," ","t",
         "h","e"," ","S","Q","L"," ","s","t","o","r","e",".","\n","-"," ",
         "T","u","n","e","d"," ","n","i","g","h","t","l","y"," ","S","Q",
         "L"," ","j","o","b","s"," ","t","h","a","t"," ","f","e","e","d",
         " ","t","h","e"," ","r","e","g","i","o","n","a","l"," ","f","i",
         "n","a","n","c","e"," ","l","e","d","g","e","r","s",".","\n","-",
         " ","B","u","i","l","t"," ","S","Q","L"," ","v","i","e","w","s",
         " ","o","f"," ","r","e","t","a","i","l"," ","o","r","d","e","r",
         "s"," ","f","o","r"," ","t","h","e"," ","r","e","g","i","o","n",
         "a","l"," ","p","l","a","n","n","i","n","g"," ","t","e","a","m",
         ".","\n","-"," ","T","r","a","i","n","e","d"," ","f","o","u","r",
         " ","n","e","w"," ","c","l","e","r","k","s"," ","o","n"," ","t",
         "h","e"," ","m","o","n","t","h","-","e","n","d"," ","c","l","o",
         "s","i","n","g"," ","r","o","u","t","i","n","e",".">>]

\* a body of more than 240 characters that shares no term with either job
\* description
ExpOmega ==
    [exp_id |-> <<"o","m","e","g","a","_","s","q","l","_","a","n","a","l","y","s",
                   "t","_","2","0","1","8">>,
     header |-> <<"O","m","e","g","a"," ","|"," ","S","Q","L"," ","A","n","a","l",
                   "y","s","t"," ","|"," ","T","X"," ","|"," ","2","0","1","8">>,
     company |-> <<"O","m","e","g","a">>,
     title |-> <<"S","Q","L"," ","A","n","a","l","y","s","t">>,
     dates |-> <<"2","0","1","8">>,
     location |-> <<"T","X">>,
     body |->
       <<"K","e","p","t"," ","t","h","e"," ","l","e","d","g","e","r","s",
         " ","o","f"," ","a"," ","f","a","m","i","l","y"," ","s","h","o",
         "p"," ","i","n"," ","o","r","d","e","r"," ","t","h","r","o","u",
         "g","h"," ","t","w","o"," ","m","o","v","e","s"," ","a","n","d",
         " ","a"," ","f","l","o","o","d",".","\n","A","n","s","w","e","r",
         "e","d"," ","t","h","e"," ","p","h","o","n","e",","," ","o","r",
         "d","e","r","e","d"," ","p","a","p","e","r"," ","a","n","d"," ",
         "i","n","k",","," "," ","p","a","i","d"," ","t","h","e"," ","s",
         "u","p","p","l","i","e","r","s"," ","o","n"," ","t","h","e"," ",
         "l","a","s","t"," ","d","a","y"," ","o","f"," ","e","a","c","h",
         " ","m","o","n","t","h",","," ","a","n","d"," ","w","r","o","t",
         "e"," ","t","h","e"," ","y","e","a","r","l","y"," ","l","e","t",
         "t","e","r"," ","t","o"," ","t","h","e"," ","l","a","n","d","l",
         "o","r","d","."," ","S","w","e","p","t"," ","t","h","e"," ","f",
         "l","o","o","r"," ","w","h","e","n"," ","n","o","b","o","d","y",
         " ","e","l","s","e"," ","w","o","u","l","d"," ","d","o"," ","i",
         "t",";"," ","n","o","b","o","d","y"," ","e","l","s","e"," ","e",
         "v","e","r"," ","d","i","d",".">>]

JobDescriptions == {JdAnalyst, JdEngineer}

ExperienceBank ==
    {ExpAcme, ExpZeta, ExpBeta, ExpGamma, ExpDelta, ExpDeltaLA, ExpOmega}

----------------------------------------------------------------------------
(* src/tools/dry_run_stub.py: scoring *)

\* e.body + " " + (e.header or "")
Blob(e) == e.body \o <<" ">> \o e.header

\* fallback[:240] + ("..." if len(fallback) > 240 else "")
\* with fallback = re.sub(r"\s+", " ", e.body.strip())
FallbackText(body) ==
    LET fallback == CollapseWs(body)
    IN Take(fallback, 240) \o (IF Len(fallback) > 240 THEN <<".", ".", ".">> ELSE <<>>)

\* The functions below are pure; their values on the texts of the model are
\* computed once, kept in memo, and looked up by build_artifacts.
SnippetTable == {<<e.body, extract_evidence_snippets(e.body)>> : e \in ExperienceBank}

SnippetsOf(body) == (CHOOSE r \in memo.snippets : r[1] = body)[2]

ParagraphTable == {<<e.body, _split_paragraphs(e.body)>> : e \in ExperienceBank}

ParagraphsOf(body) == (CHOOSE r \in memo.paragraphs : r[1] = body)[2]

ScoredTexts ==
    {Blob(e) : e \in ExperienceBank}
    \cup {FallbackText(e.body) : e \in ExperienceBank}
    \cup UNION {{sn.text : sn \in Range(extract_evidence_snippets(e.body))} :
                   e \in ExperienceBank}

TermTable == {<<t, Range(_extract_terms(t))>> : t \in ScoredTexts}

\* set(_extract_terms(text))
TermsOf(text) == (CHOOSE r \in memo.terms : r[1] = text)[2]

KeywordTable == {<<jd, _top_keywords(jd, 60)>> : jd \in JobDescriptions}

\* _top_keywords(jd_text, k=60)
KeywordsOf(jd_text) == (CHOOSE r \in memo.keywords : r[1] = jd_text)[2]

RECURSIVE ToInt(_)
\* int(y) of a text of decimal digits
ToInt(y) ==
    IF y = <<>> THEN 0
    ELSE 10 * ToInt(SubSeq(y, 1, Len(y) - 1))
         + (CHOOSE i \in 1..10 : DigitSeq[i] = y[Len(y)]) - 1

RECURSIVE YearsFrom(_, _, _)
\* re.findall(r"\b(19\d{2}|20\d{2})\b", text), as integers
YearsFrom(s, i, acc) ==
    IF i + 3 > Len(s) THEN acc
    ELSE IF /\ <<s[i], s[i + 1]>> \in {<<"1", "9">>, <<"2", "0">>}
            /\ s[i + 2] \in DigitChars /\ s[i + 3] \in DigitChars
            /\ (i = 1 \/ s[i - 1] \notin WordChars)
            /\ (i + 3 = Len(s) \/ s[i + 4] \notin WordChars)
         THEN YearsFrom(s, i + 4, Append(acc, ToInt(SubSeq(s, i, i + 3))))
         ELSE YearsFrom(s, i + 1, acc)

_extract_years(text) ==
    LET years == YearsFrom(text, 1, <<>>)
    IN SelectSeq(years, LAMBDA y : 1900 <= y /\ y <= 2100)

\* max of a non-empty sequence of integers
MaxOf(s) == CHOOSE m \in Range(s) : \A y \in Range(s) : y <= m

\* ref_year None is 0 here; "not ref_year" holds of both
_recency_score(dates, ref_year) ==
    IF dates = <<>> \/ ref_year = 0 THEN 0
    ELSE LET years == _extract_years(dates) IN
         IF years = <<>> THEN 0
         ELSE LET last_year == MaxOf(years)
                  age == IF ref_year - last_year > 0 THEN ref_year - last_year ELSE 0
              IN IF RECENCY_BOOST_MAX - age > 0 THEN RECENCY_BOOST_MAX - age ELSE 0

_hard_skill_match_count(text) == Cardinality(HARD_SKILL_TOKENS \cap TermsOf(text))

score_overlap(jd_keywords, text) == Cardinality(jd_keywords \cap TermsOf(text))

RECURSIVE AllYears(_)
\* all_years: the years of the dates of every experience that has dates
AllYears(experiences) ==
    IF experiences = <<>> THEN <<>>
    ELSE _extract_years(experiences[1].dates) \o AllYears(Tail(experiences))

\* the score breakdown dbg of one experience
ScoreBreakdown(e, jd_kw_set, ref_year, pinned) ==
    LET blob == Blob(e)
        overlap == score_overlap(jd_kw_set, blob)
        hard_skill_matches == _hard_skill_match_count(blob)
        hard_skill_bonus == HARD_SKILL_BOOST_PER_MATCH * hard_skill_matches
        recency_bonus == _recency_score(e.dates, ref_year)
        pinned_bonus == IF e.exp_id \in pinned THEN PINNED_EXP_BONUS ELSE 0
        total == overlap * OVERLAP_MULTIPLIER + hard_skill_bonus + recency_bonus
                 + pinned_bonus
    IN [overlap |-> overlap, overlap_multiplier |-> OVERLAP_MULTIPLIER,
        hard_skill_matches |-> hard_skill_matches,
        hard_skill_bonus |-> hard_skill_bonus, recency_bonus |-> recency_bonus,
        pinned_bonus |-> pinned_bonus, total |-> total]

\* the list scored of (total, dbg, e), in input order
Scored(experiences, jd_kw_set, pinned) ==
    LET all_years == AllYears(experiences)
        ref_year == IF all_years = <<>> THEN 0 ELSE MaxOf(all_years)
    IN [i \in 1..Len(experiences) |->
          LET dbg == ScoreBreakdown(experiences[i], jd_kw_set, ref_year, pinned)
          IN [total |-> dbg.total, dbg |-> dbg, e |-> experiences[i]]]

\* the sort key (-total, exp_id) of x is strictly below that of y
ScoredBefore(x, y) ==
    x.total > y.total \/ (x.total = y.total /\ StrLess(x.e.exp_id, y.e.exp_id))

RECURSIVE SortScored(_)
\* scored.sort(key=lambda x: (-x[0], x[2].exp_id)): list.sort is stable, so
\* each element goes after every element that does not come after it
SortScored(scored) ==
    IF scored = <<>> THEN <<>>
    ELSE LET n == Len(scored)
             rest == SortScored(SubSeq(scored, 1, n - 1))
             k == Cardinality({i \in 1..Len(rest) : ~ScoredBefore(scored[n], rest[i])})
         IN SubSeq(rest, 1, k) \o <<scored[n]>> \o SubSeq(rest, k + 1, Len(rest))

----------------------------------------------------------------------------
(* src/tools/dry_run_stub.py: build_artifacts *)

RECURSIVE WithOverlap(_)
\* [e for total, dbg, e in scored if dbg["overlap"] > 0]
WithOverlap(scored) ==
    IF scored = <<>> THEN <<>>
    ELSE (IF scored[1].dbg.overlap > 0 THEN <<scored[1].e>> ELSE <<>>)
         \o WithOverlap(Tail(scored))

\* a selection that cuts the ranking to max_exps before dropping overlap 0
SelectTop_CutFirst(scored, max_exps) == WithOverlap(Take(scored, max_exps))

\* selected: the first max_exps of the sorted experiences with overlap > 0
SelectTop(scored, max_exps) == Take(WithOverlap(scored), max_exps)

\* score_debug_by_exp_id.get(exp_id, {}): the dict is built from scored in
\* input order, so the last entry with this exp_id is the one it holds
score_debug_by_exp_id(scored, exp_id) ==
    LET at == {i \in 1..Len(scored) : scored[i].e.exp_id = exp_id}
    IN scored[CHOOSE i \in at : \A j \in at : j <= i].dbg

\* a sort key of the score alone
SnippetBefore_ScoreOnly(x, y) == x.s > y.s

\* the sort key (-score, -len(text), para_idx) of x is strictly below that of y
SnippetBefore(x, y) ==
    \/ x.s > y.s
    \/ x.s = y.s /\ Len(x.c.text) > Len(y.c.text)
    \/ x.s = y.s /\ Len(x.c.text) = Len(y.c.text) /\ x.c.para_idx < y.c.para_idx

RECURSIVE SortSnippets(_)
\* sorted(..., key=lambda x: (-x[0], -len(x[1]["text"]), x[1]["para_idx"]))
SortSnippets(sn) ==
    IF sn = <<>> THEN <<>>
    ELSE LET n == Len(sn)
             rest == SortSnippets(SubSeq(sn, 1, n - 1))
             k == Cardinality({i \in 1..Len(rest) : ~SnippetBefore(sn[n], rest[i])})
         IN SubSeq(rest, 1, k) \o <<sn[n]>> \o SubSeq(rest, k + 1, Len(rest))

RECURSIVE PositiveItems(_)
\* [c for s, c in sn_scored if s > 0]
PositiveItems(sn_scored) ==
    IF sn_scored = <<>> THEN <<>>
    ELSE (IF sn_scored[1].s > 0 THEN <<sn_scored[1].c>> ELSE <<>>)
         \o PositiveItems(Tail(sn_scored))

\* the snippets of one selected experience
SnippetsFor(e, jd_kw_set) ==
    LET candidates == SnippetsOf(e.body)
        sn_scored == SortSnippets([i \in 1..Len(candidates) |->
                        [s |-> score_overlap(jd_kw_set, candidates[i].text),
                         c |-> candidates[i]]])
        top == Take(PositiveItems(sn_scored), 3)
        top_items == IF top = <<>>
                     THEN <<Snippet(FallbackText(e.body), 0, "fallback")>>
                     ELSE top
    IN [idx \in 1..Len(top_items) |->
          [sn_id |-> <<"s", "n">> \o Digits(idx),
           text |-> top_items[idx].text,
           score |-> score_overlap(jd_kw_set, top_items[idx].text),
           para_idx |-> top_items[idx].para_idx,
           kind |-> top_items[idx].kind]]

\* jd_kw, selected and selected_evidence of build_artifacts; pinned is the
\* set _pinned_exp_ids_from_env() reads from RESUME_TAILOR_PIN_EXP_IDS
build_artifacts(jd_text, experiences, max_exps, pinned) ==
    LET jd_kw == KeywordsOf(jd_text)
        jd_kw_set == {jd_kw[i][1] : i \in 1..Len(jd_kw)}
        scored == Scored(experiences, jd_kw_set, pinned)
        selected == SelectTop(SortScored(scored), max_exps)
    IN [jd_kw |-> jd_kw,
        selected |-> selected,
        selected_evidence |->
          [i \in 1..Len(selected) |->
             LET e == selected[i]
                 dbg == score_debug_by_exp_id(scored, e.exp_id)
             IN [exp_id |-> e.exp_id, header |-> e.header, score |-> dbg.total,
                 score_breakdown |-> dbg, snippets |-> SnippetsFor(e, jd_kw_set)]]]

----------------------------------------------------------------------------
(* Specification SpecSelect: one run of the dry-run stub's build_artifacts *)
(* over a job description, an experience bank of at most MaxExps sections, *)
(* a max_exps of at most MaxTake and a set of pinned exp_ids.              *)

PinnedSets == {{}, {ExpZeta.exp_id}, {ExpBeta.exp_id}}

\* the banks of the model: up to MaxExps different sections of the catalogue,
\* in any order
Banks ==
    {b \in SeqsUpTo(ExperienceBank, MaxExps) :
        \A i, j \in 1..Len(b) : i # j => b[i] # b[j]}

InitSelect ==
    /\ pc = "build"
    /\ doc = <<>>
    /\ base = <<>>
    /\ edits = <<>>
    /\ result = NoResult
    /\ state = IdleState
    /\ prev_plan = NoPlan
    /\ passes = 0
    /\ inputs \in [jd_text : JobDescriptions,
                   experiences : Banks,
                   max_exps : 0..MaxTake,
                   pinned : PinnedSets]
    /\ artifacts = IdleArtifacts
    /\ memo = [terms |-> TermTable, snippets |-> SnippetTable,
               paragraphs |-> ParagraphTable, keywords |-> KeywordTable]

\* main(): artifacts = build_artifacts(jd_text, experiences, max_exps)
BuildArtifacts ==
    /\ pc = "build"
    /\ artifacts' = build_artifacts(inputs.jd_text, inputs.experiences,
                                    inputs.max_exps, inputs.pinned)
    /\ pc' = "done"
    /\ UNCHANGED <<doc, base, edits, result, state, prev_plan, passes, inputs, memo>>

NextSelect == BuildArtifacts

SpecSelect == InitSelect /\ [][NextSelect]_vars

(* Properties of SpecSelect *)

\* the scores of the run's experiences, in input order
RunScored ==
    LET jd_kw == KeywordsOf(inputs.jd_text)
    IN Scored(inputs.experiences, {jd_kw[i][1] : i \in 1..Len(jd_kw)}, inputs.pinned)

\* the input positions whose raw overlap count is positive
RunWithOverlap == {i \in 1..Len(RunScored) : RunScored[i].dbg.overlap > 0}

\* C1: build_artifacts selects exactly the first max_exps entries, in order,
\* of the experiences whose raw overlap count is > 0, sorted by total score
\* descending and then exp_id ascending; an experience with overlap count 0
\* is never selected, whatever its hard-skill, recency or pin bonus.  Stated
\* on the result: the selected list is as long as min(max_exps, number of
\* experiences with overlap > 0), it is made of distinct input positions
\* with overlap > 0, it is in (total descending, exp_id ascending) order,
\* and no unselected experience with overlap > 0 ranks before a selected one.
C1_SelectsTopWithOverlap ==
    pc = "done" =>
        LET scored == RunScored
            pos == RunWithOverlap
            sel == artifacts.selected
            k == Len(sel)
        IN /\ k = (IF inputs.max_exps < Cardinality(pos) THEN inputs.max_exps
                   ELSE Cardinality(pos))
           /\ \E f \in [1..k -> pos] :
                 /\ \A i, j \in 1..k : i # j => f[i] # f[j]
                 /\ \A i \in 1..k : scored[f[i]].e = sel[i]
                 /\ \A i \in 1..(k - 1) : ~ScoredBefore(scored[f[i + 1]], scored[f[i]])
                 /\ \A p \in pos \ {f[i] : i \in 1..k} :
                       \A i \in 1..k : ~ScoredBefore(scored[p], scored[f[i]])

\* a run in which an experience with overlap 0 outranks a selected one on its
\* bonuses, and in which the cut to max_exps drops an experience with overlap
C1_Witness ==
    /\ pc = "done"
    /\ artifacts.selected # <<>>
    /\ Cardinality(RunWithOverlap) > inputs.max_exps
    /\ \E i, j \in 1..Len(RunScored) :
          /\ RunScored[i].dbg.overlap = 0
          /\ RunScored[j].e = artifacts.selected[Len(artifacts.selected)]
          /\ ScoredBefore(RunScored[i], RunScored[j])

\* C4: every snippet attached to a selected experience, of any kind (bullet,
\* sentence, paragraph or fallback), holds text of exactly one
\* blank-line-delimited paragraph of that experience's body, the paragraph at
\* its para_idx.  The "..." that marks a cut fallback is not counted as text.
C4_SnippetWithinOneParagraph ==
    pc = "done" =>
        \A i \in 1..Len(artifacts.selected_evidence) :
            LET paras == ParagraphsOf(artifacts.selected[i].body)
                snippets == artifacts.selected_evidence[i].snippets
            IN \A j \in 1..Len(snippets) :
                  LET sn == snippets[j]
                      text == IF sn.kind = "fallback" /\ Len(sn.text) > 240
                              THEN Take(sn.text, 240) ELSE sn.text
                  IN /\ sn.para_idx < Len(paras)
                     /\ Contains(CollapseWs(paras[sn.para_idx + 1]), text)

\* every reordering of the sequence s
Reorderings(s) ==
    {[i \in 1..Len(s) |-> s[f[i]]] :
        f \in {g \in [1..Len(s) -> 1..Len(s)] :
                 \A i, j \in 1..Len(s) : i # j => g[i] # g[j]}}

\* C13: for any permutation of the input experience list, build_artifacts
\* returns the same ordered list of selected experiences, each with the same
\* score breakdown and the same snippets.
C13_StableUnderReordering ==
    pc = "done" =>
        \A p \in Reorderings(inputs.experiences) :
            LET a == build_artifacts(inputs.jd_text, p, inputs.max_exps, inputs.pinned)
            IN /\ a.selected = artifacts.selected
               /\ a.selected_evidence = artifacts.selected_evidence

\* the score breakdown the run computed for the section e itself
RunBreakdown(e) ==
    RunScored[CHOOSE k \in 1..Len(RunScored) : RunScored[k].e = e].dbg

\* the priors of x come strictly before those of y when compared in the order
\* recency bonus, hard-skill bonus, pinned bonus
PriorsBefore(x, y) ==
    \/ x.recency_bonus > y.recency_bonus
    \/ x.recency_bonus = y.recency_bonus /\ x.hard_skill_bonus > y.hard_skill_bonus
    \/ /\ x.recency_bonus = y.recency_bonus
       /\ x.hard_skill_bonus = y.hard_skill_bonus
       /\ x.pinned_bonus > y.pinned_bonus

\* C14: for any two experiences with equal overlap count, their relative rank
\* is decided by the priors taken in strict order, the higher recency bonus
\* first, then the higher hard-skill bonus, then pinned status: of two selected
\* experiences with the same overlap, the one ranked later never has the
\* priors that come first in that order.
C14_PriorsInStrictOrder ==
    pc = "done" =>
        \A i, j \in 1..Len(artifacts.selected) :
            LET x == RunBreakdown(artifacts.selected[i])
                y == RunBreakdown(artifacts.selected[j])
            IN (i < j /\ x.overlap = y.overlap) => ~PriorsBefore(y, x)

\* C15: overlap dominates all other signals: of any two experiences scored in
\* one run, the one with the strictly larger overlap count has the strictly
\* larger total, and in the selection it is ranked first.
C15_OverlapDominates ==
    pc = "done" =>
        /\ \A i, j \in 1..Len(RunScored) :
              RunScored[i].dbg.overlap > RunScored[j].dbg.overlap
                 => RunScored[i].total > RunScored[j].total
        /\ \A i, j \in 1..Len(artifacts.selected) :
              i < j => RunBreakdown(artifacts.selected[i]).overlap
                         >= RunBreakdown(artifacts.selected[j]).overlap

\* C28: for every selected experience, the score and score_breakdown that
\* selected_evidence reports are the values computed for that block itself
\* (its own overlap, hard-skill, recency and pin terms), for every experience
\* bank, also one in which two blocks have the same exp_id.
C28_OwnScoreReported ==
    pc = "done" =>
        \A k \in 1..Len(artifacts.selected) :
            /\ artifacts.selected_evidence[k].score_breakdown =
                  RunBreakdown(artifacts.selected[k])
            /\ artifacts.selected_evidence[k].score =
                  RunBreakdown(artifacts.selected[k]).total

\* the keyword set build_artifacts scores the snippets of the run against
RunKwSet ==
    LET jd_kw == KeywordsOf(inputs.jd_text) IN {jd_kw[i][1] : i \in 1..Len(jd_kw)}

\* the candidates of e with their overlap scores, in extraction order
RunCandidates(e) ==
    LET candidates == SnippetsOf(e.body)
    IN [i \in 1..Len(candidates) |->
          [s |-> score_overlap(RunKwSet, candidates[i].text), c |-> candidates[i]]]

\* the key (score descending, text length descending, paragraph index
\* ascending) puts x strictly before y
RanksBefore(x, y) ==
    \/ x.s > y.s
    \/ x.s = y.s /\ Len(x.c.text) > Len(y.c.text)
    \/ x.s = y.s /\ Len(x.c.text) = Len(y.c.text) /\ x.c.para_idx < y.c.para_idx

\* snips lists n different candidates out of cands, each with positive score,
\* in key order, and no candidate left out ranks before a listed one
TopOfPositive(snips, cands, n) ==
    /\ Len(snips) = n
    /\ \E at \in [1..n -> {i \in 1..Len(cands) : cands[i].s > 0}] :
          /\ \A a, b \in 1..n : a # b => at[a] # at[b]
          /\ \A a \in 1..n :
                /\ snips[a].text = cands[at[a]].c.text
                /\ snips[a].para_idx = cands[at[a]].c.para_idx
                /\ snips[a].kind = cands[at[a]].c.kind
                /\ snips[a].score = cands[at[a]].s
          /\ \A a, b \in 1..n : a < b => ~RanksBefore(cands[at[b]], cands[at[a]])
          /\ \A a \in 1..n : \A i \in 1..Len(cands) :
                (cands[i].s > 0 /\ \A b \in 1..n : at[b] # i)
                   => ~RanksBefore(cands[i], cands[at[a]])

\* snips is the one fallback snippet of body
OnlyFallback(snips, body) ==
    LET collapsed == CollapseWs(body)
        head == [i \in 1..(IF Len(collapsed) < 240 THEN Len(collapsed) ELSE 240) |->
                   collapsed[i]]
    IN /\ Len(snips) = 1
       /\ snips[1].kind = "fallback"
       /\ snips[1].text = (IF Len(collapsed) > 240 THEN head \o <<".", ".", ".">> ELSE head)

----------------------------------------------------------------------------
(* resume_tailoring/agent.py: resume_tailoring_pipeline, a SequentialAgent *)
(* that runs its sub-agents once each, in list order.  pc names the        *)
(* sub-agent that runs next.  The template preparer calls                  *)
(* tag_resume_template_tool with reserve_per_group = 1, the planner's      *)
(* output is stored under resume_edit_plan, the writer calls               *)
(* generate_docx_tool; the other sub-agents write session keys that no     *)
(* operation of this module reads.                                         *)

PipelineAgents ==
    <<"resume_template_preparer", "input_processor", "job_research_agent",
      "experience_refiner_agent", "experience_bank_saver",
      "resume_planner_agent", "resume_writer_agent">>

\* position of a sub-agent in the list, 0 for an agent that is not in it
AgentIndex(name) ==
    IF \E i \in 1..Len(PipelineAgents) : PipelineAgents[i] = name
    THEN CHOOSE i \in 1..Len(PipelineAgents) : PipelineAgents[i] = name
    ELSE 0

\* what runs after the sub-agent `name`
NextAgent(name) ==
    IF AgentIndex(name) = Len(PipelineAgents) THEN "finished"
    ELSE PipelineAgents[AgentIndex(name) + 1]

\* the resume templates of the pipeline runs of the model: current_resume_path
\* names a .docx file, the case in which the preparer calls its tool
PipelineDocs == SeqsUpTo(TagParas, 1) \cup {ExampleDoc}

InitPipeline ==
    /\ pc = PipelineAgents[1]
    /\ doc \in PipelineDocs
    /\ base = <<>>
    /\ edits = <<>>
    /\ result = NoResult
    /\ state = IdleState
    /\ prev_plan = NoPlan
    /\ passes = 0
    /\ inputs = [reserve_per_group |-> 1]
    /\ artifacts = IdleArtifacts
    /\ memo = [lint |-> LintTable]

\* resume_template_preparer: one call of tag_resume_template_tool
RunTemplatePreparer ==
    /\ pc = "resume_template_preparer"
    /\ LET res == tag_docx_bullets(doc, PrefixB, inputs.reserve_per_group) IN
         /\ doc' = res.doc
         /\ base' = doc
         /\ result' = [status |-> "success",
                       tagged_bullets |-> res.tagged_bullets,
                       reserve_bullets_added |-> res.reserve_bullets_added]
    /\ passes' = passes + 1
    /\ pc' = NextAgent(pc)
    /\ UNCHANGED <<edits, state, prev_plan, inputs, artifacts, memo>>

\* input_processor, job_research_agent, experience_refiner_agent and
\* experience_bank_saver
RunUpstreamAgent ==
    /\ pc \in {"input_processor", "job_research_agent",
               "experience_refiner_agent", "experience_bank_saver"}
    /\ pc' = NextAgent(pc)
    /\ UNCHANGED <<doc, base, edits, result, state, prev_plan, passes, inputs,
                   artifacts, memo>>

\* resume_planner_agent: output_key="resume_edit_plan"
RunResumePlanner ==
    /\ pc = "resume_planner_agent"
    /\ \E plan \in Plans : state' = [state EXCEPT !.resume_edit_plan = plan]
    /\ pc' = NextAgent(pc)
    /\ UNCHANGED <<doc, base, edits, result, prev_plan, passes, inputs, artifacts, memo>>

\* resume_writer_agent: generate_docx_tool writes the final resume
RunResumeWriter ==
    /\ pc = "resume_writer_agent"
    /\ result' = [status |-> "success"]
    /\ pc' = NextAgent(pc)
    /\ UNCHANGED <<doc, base, edits, state, prev_plan, passes, inputs, artifacts, memo>>

NextPipeline ==
    RunTemplatePreparer \/ RunUpstreamAgent \/ RunResumePlanner \/ RunResumeWriter

SpecPipeline == InitPipeline /\ [][NextPipeline]_vars

(* Properties of SpecPipeline *)

\* the sub-agents that have run so far, in the order they ran
AgentsRun ==
    IF pc = "finished" THEN PipelineAgents
    ELSE SubSeq(PipelineAgents, 1, AgentIndex(pc) - 1)

\* agent a has run, and b had run before it
RanAfter(a, b) ==
    \E i, j \in 1..Len(AgentsRun) :
        i < j /\ AgentsRun[i] = b /\ AgentsRun[j] = a

\* C18: in every run of resume_tailoring_pipeline the stages occur in the
\* order tag the template, author the edit plan, lint-and-gate the plan,
\* write the document: once the planner has run the tagging stage had run
\* before it and has tagged the template, and once the writer has run the
\* planner and then the plan validator had run before it, so that the plan in
\* session state is the gated plan of a plan given to lint_and_gate_plan.
C18_StageOrder ==
    /\ (\E i \in 1..Len(AgentsRun) : AgentsRun[i] = "resume_planner_agent") =>
          /\ RanAfter("resume_planner_agent", "resume_template_preparer")
          /\ passes >= 1
    /\ pc = "finished" =>
          /\ RanAfter("plan_validator_agent", "resume_planner_agent")
          /\ RanAfter("resume_writer_agent", "plan_validator_agent")
          /\ prev_plan.present
          /\ state.resume_edit_plan = lint_and_gate_plan(prev_plan).gated_plan

----------------------------------------------------------------------------
(* src/tools/dry_run_stub.py: parse_experience_bank_md *)

MaxMdLines == 3

\* the matches of re.split's pattern ^##\s+ (MULTILINE) in md, each as
\* <<first, last>>: "##" at the start of a line, then the longest run of
\* whitespace, newlines included
SectionMarks(md) ==
    LET starts == {i \in 1..(Len(md) - 2) :
                     /\ i = 1 \/ md[i - 1] = "\n"
                     /\ md[i] = "#" /\ md[i + 1] = "#"
                     /\ md[i + 2] \in Whitespace}
        last(i) == CHOOSE j \in (i + 2)..Len(md) :
                     /\ \A k \in (i + 2)..j : md[k] \in Whitespace
                     /\ j = Len(md) \/ md[j + 1] \notin Whitespace
    IN {<<i, last(i)>> : i \in starts}

\* re.split(r"^##\s+", md, flags=re.MULTILINE): the text before the first
\* match, between the matches and after the last one, empty pieces kept
SplitSections(md) ==
    LET marks == SectionMarks(md)
        n == Cardinality(marks)
        mark(k) == CHOOSE m \in marks : Cardinality({x \in marks : x[1] < m[1]}) = k - 1
        from(k) == IF k = 0 THEN 1 ELSE mark(k)[2] + 1
        to(k) == IF k = n THEN Len(md) ELSE mark(k + 1)[1] - 1
    IN [k \in 1..(n + 1) |-> SubSeq(md, from(k - 1), to(k - 1))]

\* str.splitlines() on a text whose only line break is "\n": no line for the
\* empty text, none after a final line break
SplitLines(p) ==
    IF p = <<>> THEN <<>>
    ELSE LET pieces == SplitOn(p, "\n") IN
         IF pieces[Len(pieces)] = <<>> THEN SubSeq(pieces, 1, Len(pieces) - 1)
         ELSE pieces

\* _slug(s): strip, lower, each run of characters outside [a-z0-9] becomes
\* one "_" (after which no two "_" are adjacent), then strip("_")
_slug(s) ==
    LET t == Lower(Strip(s))
        alnum(i) == t[i] \in LowerChars \cup DigitChars
        kept == SelectSeq([i \in 1..Len(t) |-> i],
                          LAMBDA i : alnum(i) \/ i = 1 \/ alnum(i - 1))
        u == [k \in 1..Len(kept) |-> IF alnum(kept[k]) THEN t[kept[k]] ELSE "_"]
        lo == IF u # <<>> /\ u[1] = "_" THEN 2 ELSE 1
        hi == IF u # <<>> /\ u[Len(u)] = "_" THEN Len(u) - 1 ELSE Len(u)
    IN SubSeq(u, lo, hi)

\* the body of the loop of parse_experience_bank_md for a part with at least
\* one line
ParseSection(p) ==
    LET lines == SplitLines(p)
        header == Strip(lines[1])
        body == Strip(Join(Tail(lines), <<"\n">>))
        raw == SplitOn(header, "|")
        fields == IF \E i \in 1..Len(header) : header[i] = "|"
                  THEN [i \in 1..Len(raw) |-> Strip(raw[i])]
                  ELSE <<>>
        field(k) == IF k <= Len(fields) THEN fields[k] ELSE <<>>
        given == SelectSeq(<<field(1), field(2), field(4)>>, LAMBDA x : x # <<>>)
        slug_base == IF given # <<>> THEN Join(given, <<" ">>) ELSE header
    IN [exp_id |-> _slug(slug_base), header |-> header,
        company |-> field(1), title |-> field(2), dates |-> field(4),
        location |-> field(3), body |-> body]

\* parse_experience_bank_md(md): lines[0] of a part without lines raises
\* IndexError, which nothing in the function catches
parse_experience_bank_md(md) ==
    LET parts == SplitSections(md)
        secs == Tail(parts)
    IN IF \E k \in 1..Len(secs) : SplitLines(secs[k]) = <<>>
       THEN [status |-> "IndexError"]
       ELSE [status |-> "returned",
             exps |-> [k \in 1..Len(secs) |-> ParseSection(secs[k])]]

\* the lines the bank files of the model are made of
MdLines ==
    {<<"#","#"," ","A","b"," ","|"," ","C","d"," ","|"," ","N","Y"," ","|"," ","2","0","2","0">>,
     <<"D","i","d"," ","x",".">>,
     <<"#","#"," ">>,
     <<>>,
     <<"#","#"," ","S","o","l","o">>}

\* the bank files of the model: up to MaxMdLines lines, joined by "\n"
BankFiles == {Join(ls, <<"\n">>) : ls \in SeqsUpTo(MdLines, MaxMdLines)}

InitParse ==
    /\ pc = "parse"
    /\ doc = <<>>
    /\ base = <<>>
    /\ edits = <<>>
    /\ result = NoResult
    /\ state = IdleState
    /\ prev_plan = NoPlan
    /\ passes = 0
    /\ inputs \in [bank_md : BankFiles]
    /\ artifacts = IdleArtifacts
    /\ memo = IdleMemo

\* main(): experiences = parse_experience_bank_md(bank_md)
ParseBank ==
    /\ pc = "parse"
    /\ result' = parse_experience_bank_md(inputs.bank_md)
    /\ pc' = "parsed"
    /\ UNCHANGED <<doc, base, edits, state, prev_plan, passes, inputs, artifacts, memo>>

NextParse == ParseBank

SpecParse == InitParse /\ [][NextParse]_vars

(* Properties of SpecParse *)

\* the bank file with the sections that have no header line and no body cut
\* out, section mark included
WithoutEmptySections(md) ==
    LET marks == SectionMarks(md)
        dead == {m \in marks : m[2] = Len(md) \/ \E x \in marks : x[1] = m[2] + 1}
    IN SelectSeq([i \in 1..Len(md) |-> <<i, md[i]>>],
                 LAMBDA c : ~\E m \in dead : m[1] <= c[1] /\ c[1] <= m[2])

\* C19: parse_experience_bank_md returns normally for every markdown input,
\* and a section with no header text and no body is skipped: the blocks
\* returned are those of the other sections, in file order.
C19_MalformedSkipped ==
    pc = "parsed" =>
        /\ result.status = "returned"
        /\ LET rest == WithoutEmptySections(inputs.bank_md)
               kept == parse_experience_bank_md([i \in 1..Len(rest) |-> rest[i][2]])
           IN kept.status = "returned" /\ result.exps = kept.exps

----------------------------------------------------------------------------
(* Specification SpecSnippets: one call of extract_evidence_snippets on an *)
(* experience body of at most MaxBodyLines lines.                          *)

MaxBodyLines == 3

\* the lines the bodies of the model are made of: a bullet line of 50 or
\* more characters, a shorter bullet line, a sentence of 60 or more
\* characters, a short line and the empty line that ends a paragraph
BodyLines ==
    {<<"-"," ","B","u","i","l","t"," ","S","Q","L"," ","v","i","e","w","s"," ","o","f"," ","r","e","t","a","i","l"," ","o","r","d","e","r","s"," ","f","o","r"," ","t","h","e"," ","r","e","g","i","o","n","a","l"," ","p","l","a","n","n","i","n","g"," ","t","e","a","m",".">>,
     <<"*"," ","R","a","n"," ","w","e","e","k","l","y"," ","s","t","o","c","k"," ","c","o","u","n","t","s"," ","f","o","r"," ","t","h","e"," ","s","h","o","p"," ","f","l","o","o","r"," ","s","t","a","f","f">>,
     <<"K","e","p","t"," ","t","h","e"," ","l","e","d","g","e","r","s"," ","o","f"," ","t","h","e"," ","f","a","m","i","l","y"," ","s","h","o","p"," ","i","n"," ","o","r","d","e","r"," ","f","o","r"," ","n","i","n","e"," ","l","o","n","g"," ","y","e","a","r","s",".">>,
     <<"A","l","s","o"," ","d","r","o","v","e"," ","t","h","e"," ","v","a","n",".">>,
     <<>>}

Bodies == {Join(ls, <<"\n">>) : ls \in SeqsUpTo(BodyLines, MaxBodyLines)}

InitSnippets ==
    /\ pc = "extract"
    /\ doc = <<>>
    /\ base = <<>>
    /\ edits = <<>>
    /\ result = NoResult
    /\ state = IdleState
    /\ prev_plan = NoPlan
    /\ passes = 0
    /\ inputs \in [exp_body : Bodies]
    /\ artifacts = IdleArtifacts
    /\ memo = IdleMemo

\* candidates = extract_evidence_snippets(e.body)
ExtractSnippets ==
    /\ pc = "extract"
    /\ result' = [status |-> "returned",
                  out |-> extract_evidence_snippets(inputs.exp_body)]
    /\ pc' = "extracted"
    /\ UNCHANGED <<doc, base, edits, state, prev_plan, passes, inputs, artifacts, memo>>

NextSnippets == ExtractSnippets

SpecSnippets == InitSnippets /\ [][NextSnippets]_vars

(* Properties of SpecSnippets *)

\* the paragraphs of the run's body
RunParas == _split_paragraphs(inputs.exp_body)

\* the non-empty lines of a paragraph, stripped
ParaLines(para) ==
    LET raw == SplitOn(para, "\n")
        at == SelectSeq([i \in 1..Len(raw) |-> i], LAMBDA i : Strip(raw[i]) # <<>>)
    IN [k \in 1..Len(at) |-> Strip(raw[at[k]])]

\* the snippets returned for paragraph number p (from 0), in output order
OutOfPara(p) == SelectSeq(result.out, LAMBDA sn : sn.para_idx = p)

\* the marker-stripped bullet lines of 50 or more characters of a paragraph
LongBullets(para) ==
    LET lines == ParaLines(para)
        at == SelectSeq([i \in 1..Len(lines) |-> i],
                        LAMBDA i : BulletMarkerLen(lines[i]) > 0
                                   /\ Len(BulletText(lines[i])) >= 50)
    IN [k \in 1..Len(at) |-> BulletText(lines[at[k]])]

\* at least half of the non-empty lines of para start with a bullet marker
HalfAreBullets(para) ==
    LET lines == ParaLines(para)
    IN 2 * Cardinality({i \in 1..Len(lines) : BulletMarkerLen(lines[i]) > 0}) >= Len(lines)

\* C21: extract_evidence_snippets treats a paragraph as a bullet list exactly
\* when at least half of its non-empty lines start with a bullet marker, for
\* every line count from one line upward: such a paragraph yields its bullet
\* lines of 50 or more characters, marker stripped, as snippets of kind
\* bullet, and any other paragraph yields no snippet of kind bullet.
C21_HalfBulletRule ==
    pc = "extracted" =>
        \A p \in 1..Len(RunParas) :
            LET para == RunParas[p]
                texts == LongBullets(para)
            IN IF HalfAreBullets(para)
               THEN OutOfPara(p - 1) =
                       [k \in 1..Len(texts) |-> Snippet(texts[k], p - 1, "bullet")]
               ELSE \A k \in 1..Len(OutOfPara(p - 1)) : OutOfPara(p - 1)[k].kind # "bullet"

\* C22: every paragraph of 80 or more characters after whitespace collapsing
\* from which neither the bullet rule nor the sentence rule emits a snippet
\* yields exactly one snippet, of kind paragraph, holding the whole collapsed
\* paragraph; this covers a bullet-list paragraph whose bullet lines are all
\* shorter than 50 characters.
C22_ParagraphFallback ==
    pc = "extracted" =>
        \A p \in 1..Len(RunParas) :
            LET flat == CollapseWs(RunParas[p])
                outp == OutOfPara(p - 1)
            IN (/\ Len(flat) >= 80
                /\ \A k \in 1..Len(outp) : outp[k].kind \notin {"bullet", "sentence"})
                  => outp = <<Snippet(flat, p - 1, "paragraph")>>

----------------------------------------------------------------------------
(* Further properties of SpecTag *)

\* the sequence number a bookmark name encodes: the four digits after the
\* one-letter prefix
NameSeqNo(name) == ToInt(SubSeq(name, 2, 5))

\* the reserve number r of a name ending in _R<r>, 0 for a bullet's name
NameReserveNo(name) ==
    IF Len(name) > 7 THEN ToInt(SubSeq(name, 8, Len(name))) ELSE 0

\* C30: in the output of tag_docx_bullets on an untagged document the
\* sequence numbers encoded in the bookmark names strictly increase in
\* document order, for every reserve_per_group >= 1; in particular the
\* reserve slots of a group follow its last bullet in the order _R1, _R2, ...
C30_NamesInDocumentOrder ==
    (FirstPassDone /\ inputs.reserve_per_group >= 1) =>
        LET bs == Bookmarks(doc)
        IN \A k \in 1..(Len(bs) - 1) :
              /\ NameSeqNo(bs[k].name) < NameSeqNo(bs[k + 1].name)
              /\ NameReserveNo(bs[k + 1].name) > 0 =>
                    NameReserveNo(bs[k + 1].name) = NameReserveNo(bs[k].name) + 1

----------------------------------------------------------------------------
(* src/docx_tailor.py: replace_block on the paragraphs of a document *)

MaxBlockParas == 3
MaxNewLines == 3

\* re.sub(r"\s+", " ", s).strip()
normalize(s) == CollapseWs(s)

\* the first index in S, 0 (None) when S is empty
FirstIn(S) == IF S = {} THEN 0 ELSE CHOOSE i \in S : \A j \in S : i <= j

\* end_idx of the location loop: the first paragraph after start_idx whose
\* text matches end_match; None when no start was found
EndAfter(d, start_idx, end_match) ==
    IF start_idx = 0 THEN 0
    ELSE FirstIn({i \in (start_idx + 1)..Len(d) :
                     normalize(d[i].text) = normalize(end_match)})

\* start_idx of the location loop, counted from 1: the first paragraph whose
\* text matches start_match
StartOf(d, start_match) ==
    FirstIn({i \in 1..Len(d) : normalize(d[i].text) = normalize(start_match)})

\* (start_idx, end_idx) of the location loop
LocateBlock(d, start_match, end_match) ==
    <<StartOf(d, start_match), EndAfter(d, StartOf(d, start_match), end_match)>>

\* the overwrite loop and the insertion of the extra lines, for a located
\* block: the block's paragraphs get the new lines, or "" when the lines run
\* out; lines beyond the block become new paragraphs after the end
OverwriteBlock(d, start_idx, end_idx, new_lines) ==
    SubSeq(d, 1, start_idx - 1)
    \o [j \in 1..(end_idx - start_idx + 1) |->
          IF j <= Len(new_lines)
          THEN [d[start_idx + j - 1] EXCEPT !.text = new_lines[j]]
          ELSE [d[start_idx + j - 1] EXCEPT !.text = <<>>]]
    \o (IF Len(new_lines) > end_idx - start_idx + 1
        THEN [k \in 1..(Len(new_lines) - (end_idx - start_idx + 1)) |->
                Para(new_lines[end_idx - start_idx + 1 + k], StyleNormal, <<>>)]
        ELSE <<>>)
    \o SubSeq(d, end_idx + 1, Len(d))

\* the part of replace_block after the location loop
ReplaceAt(d, loc, new_lines) ==
    IF loc[1] = 0 \/ loc[2] = 0
    THEN [status |-> "RuntimeError", doc |-> d]
    ELSE [status |-> "returned", needed |-> Len(new_lines),
          doc |-> OverwriteBlock(d, loc[1], loc[2], new_lines)]

replace_block(d, start_match, end_match, new_lines) ==
    ReplaceAt(d, LocateBlock(d, start_match, end_match), new_lines)

\* the paragraph texts of the documents replace_block is run on: the start
\* marker, the same with extra whitespace, the end marker and another text
BlockTexts == {<<"s">>, <<" ", "s", " ">>, <<"e">>, <<"x">>}

BlockDocs ==
    {[i \in 1..Len(ts) |-> Para(ts[i], StyleListBullet, <<>>)] :
        ts \in SeqsUpTo(BlockTexts, MaxBlockParas)}

InitBlock ==
    /\ pc = "replace"
    /\ doc \in BlockDocs
    /\ base = <<>>
    /\ edits = <<>>
    /\ result = NoResult
    /\ state = IdleState
    /\ prev_plan = NoPlan
    /\ passes = 0
    /\ inputs \in [start_match : {<<"s">>},
                   end_match : {<<"e">>, <<"s">>},
                   new_lines : SeqsUpTo({<<"n">>}, MaxNewLines)]
    /\ artifacts = IdleArtifacts
    /\ memo = IdleMemo

\* main(): replace_block(paras, start, end, bullets) on the loaded document
ReplaceBlock ==
    /\ pc = "replace"
    /\ LET out == replace_block(doc, inputs.start_match, inputs.end_match,
                                inputs.new_lines) IN
         /\ doc' = out.doc
         /\ result' = [f \in DOMAIN out \ {"doc"} |-> out[f]]
    /\ base' = doc
    /\ pc' = "replaced"
    /\ UNCHANGED <<edits, state, prev_plan, passes, inputs, artifacts, memo>>

NextBlock == ReplaceBlock

SpecBlock == InitBlock /\ [][NextBlock]_vars

(* Properties of SpecBlock *)

\* paragraph i lies in the block located in the document the call was given
InBlock(i) ==
    /\ StartOf(base, inputs.start_match) <= i
    /\ i <= EndAfter(base, StartOf(base, inputs.start_match), inputs.end_match)

\* C25: replace_block never changes the number of paragraphs of the document:
\* for any located block and any new_lines, also a list longer than the
\* block, no paragraph is inserted or removed, and only the texts of
\* paragraphs inside the block are overwritten.
C25_ParagraphCountKept ==
    (pc = "replaced" /\ result.status = "returned") =>
        /\ Len(doc) = Len(base)
        /\ \A i \in 1..Len(base) :
              /\ doc[i].style = base[i].style
              /\ doc[i].bms = base[i].bms
              /\ doc[i].text # base[i].text => InBlock(i)

----------------------------------------------------------------------------
(* Specification SpecKeywords: the term extraction and keyword profile of  *)
(* a text of at most MaxWords words, cut at k <= MaxK keywords.            *)

MaxWords == 4
MaxK == 2

\* the words the texts of the model are made of: a hard-skill token, two
\* generic tokens that are no stopwords, and the two words of the
\* whitelisted phrase (data, pipeline)
KeywordWords ==
    {<<"s","q","l">>, <<"b","u","i","l","t">>, <<"d","e","v","e","l","o","p">>, <<"d","a","t","a">>, <<"p","i","p","e","l","i","n","e">>}

KeywordTexts == {Join(ws, <<" ">>) : ws \in SeqsUpTo(KeywordWords, MaxWords)}

InitKeywords ==
    /\ pc = "profile"
    /\ doc = <<>>
    /\ base = <<>>
    /\ edits = <<>>
    /\ result = NoResult
    /\ state = IdleState
    /\ prev_plan = NoPlan
    /\ passes = 0
    /\ inputs \in [text : KeywordTexts, k : 0..MaxK]
    /\ artifacts = IdleArtifacts
    /\ memo = IdleMemo

\* jd_kw = _top_keywords(jd_text, k=...), with the term list it is counted from
ProfileText ==
    /\ pc = "profile"
    /\ result' = [status |-> "returned",
                  terms |-> _extract_terms(inputs.text),
                  keywords |-> _top_keywords(inputs.text, inputs.k)]
    /\ pc' = "profiled"
    /\ UNCHANGED <<doc, base, edits, state, prev_plan, passes, inputs, artifacts, memo>>

NextKeywords == ProfileText

SpecKeywords == InitKeywords /\ [][NextKeywords]_vars

(* Properties of SpecKeywords *)

\* the number of occurrences of term t in the extracted term list of the run
Occurrences(t) == Cardinality({i \in 1..Len(result.terms) : result.terms[i] = t})

\* the count after the generic-token down-weighting
AdjustedCount(t) ==
    IF t \in GENERIC_TOKENS
    THEN (IF Occurrences(t) >= 1 THEN Occurrences(t) - 1 ELSE 0)
    ELSE Occurrences(t)

\* C26: _top_keywords returns at most k (term, count) pairs with pairwise
\* distinct terms and every count >= 1, ordered by count descending and then
\* term ascending; each count is the term's number of occurrences in the
\* extracted term list, minus 1 for a generic token, never below 0, and a
\* term whose adjusted count is 0 is absent.
C26_TopKeywords ==
    pc = "profiled" =>
        LET kw == result.keywords
        IN /\ Len(kw) <= inputs.k
           /\ \A a, b \in 1..Len(kw) : a # b => kw[a][1] # kw[b][1]
           /\ \A a \in 1..Len(kw) :
                 /\ kw[a][2] >= 1
                 /\ kw[a][2] = AdjustedCount(kw[a][1])
           /\ \A a, b \in 1..Len(kw) :
                 a < b => \/ kw[a][2] > kw[b][2]
                          \/ kw[a][2] = kw[b][2] /\ StrLess(kw[a][1], kw[b][1])

\* a profile of "built built develop sql" cut at 2: the generic token that
\* occurs twice is listed with count 1, before sql with the same count, and
\* the generic token that occurs once is absent
C26_Witness ==
    /\ pc = "profiled"
    /\ inputs.k = 2
    /\ Occurrences(<<"b","u","i","l","t">>) = 2
    /\ Occurrences(<<"d","e","v","e","l","o","p">>) = 1
    /\ result.keywords = <<<<<<"b","u","i","l","t">>, 1>>, <<<<"s","q","l">>, 1>>>>

\* C27: for every pair (a, b) of PHRASE_WHITELIST, whenever the words a and b
\* occur consecutively in the text, _extract_terms emits the bigram term a_b.
C27_WhitelistAlwaysEmitted ==
    pc = "profiled" =>
        LET words == SplitWs(Lower(inputs.text))
        IN \A i \in 1..(Len(words) - 1) :
              <<words[i], words[i + 1]>> \in PHRASE_WHITELIST =>
                  \E n \in 1..Len(result.terms) :
                      result.terms[n] = BigramTerm(words[i], words[i + 1])

----------------------------------------------------------------------------
(* Further properties of SpecTailor *)

\* the edits of the batch that the loop counts as replaced: old_bullet is not
\* blank and matches a paragraph of the base document
CountedReplaced ==
    {k \in 1..Len(edits) :
        NormOf(edits[k].old_bullet) # <<>>
        /\ idx_map(base, NormOf(edits[k].old_bullet)) # {}}

\* the new_bullet texts of the batch are pairwise distinct and none is the
\* text of a paragraph of the base document
FreshNewBullets ==
    /\ \A j, k \in 1..Len(edits) : j # k => edits[j].new_bullet # edits[k].new_bullet
    /\ \A k \in 1..Len(edits) : \A i \in 1..Len(base) :
          edits[k].new_bullet # base[i].text

\* C29: when all new_bullet texts of a batch are pairwise distinct and differ
\* from every paragraph text of the base document, the number of paragraphs
\* whose text differs between the base and the output equals the returned
\* replaced count, and each edit counted as replaced has its new_bullet as
\* the text of some output paragraph, also when several edits carry the same
\* old_bullet.
C29_ReplacedCountsChanges ==
    (pc = "done" /\ FreshNewBullets) =>
        /\ Len(doc) = Len(base)
        /\ Cardinality({i \in 1..Len(base) : doc[i].text # base[i].text})
              = result.replaced
        /\ \A k \in CountedReplaced :
              \E i \in 1..Len(doc) : doc[i].text = edits[k].new_bullet
====
